---- MODULE Spec2Model ----
(***************************************************************************)
(* tushare-sync: the concurrent fetch-retry-ingest pipeline with           *)
(* blue/green table swap.                                                  *)
(*                                                                         *)
(* The specifications of this module:                                      *)
(*   SpecSwap   the swap scripts (apply_table.py, apply-ak-stock-minute-   *)
(*              new.py, apply-qfq-new.py, move_qfq_table.py,               *)
(*              apply-ths-concept-new.py) against the store and the        *)
(*              DatabaseHandler table cache;                               *)
(*   SpecFetch  the retrying fetchers, one unit at a time;                 *)
(*   SpecRun    the orchestrators (sync_concepts, sync_daily_qfq, the two  *)
(*              sync_stock_minute, main of sync_stock_concept_adata_ths)   *)
(*              over a list of units and a worker pool;                    *)
(*   SpecPool   the threads of a pool pipeline at the grain of one         *)
(*              statement sent to the store;                               *)
(*   SpecManifest the failure manifest written and read back;              *)
(*   SpecHandler  two callers of one DatabaseHandler: ensure_table_exists, *)
(*              insert_data, _create_indexes and first-batch writes;       *)
(*   SpecDedup  insert_data called several times, one call after the       *)
(*              other;                                                     *)
(*   SpecIndex  _create_indexes on a table before and after its swap.      *)
(***************************************************************************)
EXTENDS Integers, Sequences, FiniteSets, TLC

VARIABLES
    \* ---- store and DatabaseHandler (db_handler.py)
    store,      \* table name -> [exists, rows]: the relational store
    cache,      \* DatabaseHandler._existing_tables
    handler,    \* whether the process-wide _db_handler has been constructed
    \* ---- one swap script invocation
    impl,       \* which swap script runs
    pairs,      \* its (new, old) table pairs, in the order it handles them
    k,          \* index of the pair being handled
    swpc,       \* position in the script
    ret,        \* its return value: "none" until it returns, then "True"/"False"
    pre,        \* the store when the script was invoked
    runs,       \* invocations so far
    diedAt,     \* position at which the previous process died ("none": it did not)
    fault,      \* whether the store raised on a statement of this invocation
    \* ---- one fetch of one unit by a retrying fetcher
    fkind,      \* which fetcher
    retries,    \* its configured number of attempts
    base,       \* its configured backoff base
    attempt,    \* failed attempts so far (the loop variable)
    calls,      \* what the data source did on each call so far
    sleeps,     \* the delays slept so far
    fres,       \* what the fetcher returned ("pending" until it does)
    fpc,        \* "loop" while the fetcher runs, then "done"
    \* ---- one run of an orchestrator
    orch,           \* which orchestrator
    resume,         \* sync_concepts: the run was given a concept file
    nunits,         \* number of units submitted
    max_workers,    \* size of the worker pool
    ust,            \* unit -> "queued", "running", "finished", "processed"
    src,            \* unit -> what its data source did: [truth, n]
    fut,            \* unit -> what its future holds: [val, msg]
    wr,             \* unit -> how its write went: "none", "ok", "raised"
    shadow,         \* the shadow table: [exists, rows], rows a bag of batches
    first_batch,    \* the orchestrator's first_batch flag
    total_records,  \* its record counter
    success_count,  \* its success counter
    finished,       \* its processed / finished counter
    failed,         \* its failure list, a sequence of [unit, reason]
    rpc,            \* position in the run
    rret,           \* its return value: "none", then "True"/"False"
    manifest,       \* the failure manifest file: [exists, units]
    \* ---- the threads of one pool pipeline
    pipe,           \* which pipeline runs
    pworkers,       \* max_workers of its ThreadPoolExecutor
    pst,            \* unit -> where its task / its batch is
    lcur,           \* the unit the as_completed loop is at (0: none)
    db_retry,       \* unit -> process_stock's db_retry
    mpc,            \* the main thread: "loop", "shutdown", "summary", "interrupted"
    crows,          \* unit -> what the table holds for its ts_code: "list" (a whole list
                    \* of concepts, of the run before or of this run) or "none"
    \* ---- one DatabaseHandler, its table and its callers
    htable,             \* the table name the calls are about
    hstore,             \* the table in the store: [exists, rows, idx, uniq]
    inspector,          \* whether DatabaseHandler._inspector is set
    existing_tables,    \* DatabaseHandler._existing_tables
    hop,                \* caller -> the call it makes
    hpc,                \* caller -> its position in the call
    hidx,               \* caller -> position in the index definitions
    existing_indexes,   \* caller -> the index names get_indexes returned
    asked,              \* caller -> what has_table answered: "no" (not asked), "present", "absent"
    swallowed,          \* caller -> whether a failed cache refresh was ignored
    hret,               \* caller -> "none", "returned", "raised", "True", "False"
    hlog,               \* the writes of frames done, in order: [caller, mode]
    htemp,              \* second -> the caller whose frame the table temp_<table>_<second> holds (0: no such table)
    hsec,               \* caller -> the second in the name of its temporary table (0: none yet)
    hempty,             \* caller -> whether the frame it passes is empty
    herr,               \* caller -> the statements of its call that raised
    table_lock,         \* the caller that holds DatabaseHandler._table_lock (0: free)
    touched,            \* caller -> how it last read or wrote _existing_tables: "no", "locked", "bare"
    hcalls,             \* caller -> the calls it has begun
    \* ---- _create_indexes before and after a swap
    ix_table,           \* the name the table has now
    ix_store,           \* the indexes the store holds for it, by name
    ix_issued,          \* the CREATE INDEX statements sent so far
    ix_pc,              \* "first", "created", "promoted", "second", "done"
    ix_i,               \* the loop position of the running _create_indexes call
    \* ---- the failure manifest of sync_ths_concepts.py as text
    failed_list,        \* failed_concepts: a sequence of [name, reason], both strings of characters
    mfile,              \* the characters of failed_concepts.txt ("none": not written)
    mnames,             \* what read_concept_names_from_file returned ("none": not called)
    mstep               \* "list", "written", "read"

swapVars == <<store, cache, handler, impl, pairs, k, swpc, ret, pre, runs, diedAt, fault>>

fetchVars == <<fkind, retries, base, attempt, calls, sleeps, fres, fpc>>

runVars == <<orch, resume, nunits, max_workers, ust, src, fut, wr, shadow, first_batch,
             total_records, success_count, finished, failed, rpc, rret, manifest>>

poolVars == <<pipe, pworkers, pst, lcur, db_retry, mpc, crows>>

handlerVars == <<htable, hstore, inspector, existing_tables, hop, hpc, hidx,
                 existing_indexes, asked, swallowed, hret, hlog, htemp, hsec, hempty, herr, table_lock, touched, hcalls, ix_table, ix_store, ix_issued, ix_pc, ix_i>>

manifestVars == <<failed_list, mfile, mnames, mstep>>

vars == <<swapVars, fetchVars, runVars, poolVars, handlerVars, manifestVars>>

\* what the actions of one part of the program leave alone
besidesSwap == <<fetchVars, runVars, poolVars, handlerVars, manifestVars>>

besidesFetch == <<swapVars, runVars, poolVars, handlerVars, manifestVars>>

besidesRun == <<swapVars, fetchVars, poolVars, handlerVars, manifestVars>>

besidesPool == <<swapVars, fetchVars, runVars, handlerVars, manifestVars>>

besidesHandler == <<swapVars, fetchVars, runVars, poolVars, manifestVars>>

besidesManifest == <<swapVars, fetchVars, runVars, poolVars, handlerVars>>

(***************************************************************************)
(* Bounds                                                                  *)
(***************************************************************************)
MaxRows == 2
MaxRuns == 2
MaxCfgRetries == 3
MaxPause == 2
MaxUnits == 3
MaxWorkers == 2
MaxBatch == 2

Rows == 1..MaxRows

(***************************************************************************)
(* The store: tables and their rows                                        *)
(***************************************************************************)
Names == {"tbl", "tbl_new", "meta", "meta_new"}

NoTable == [exists |-> FALSE, rows |-> {}]

Table(r) == [exists |-> TRUE, rows |-> r]

TableStates == {NoTable} \cup {Table(r) : r \in SUBSET Rows}

\* inspector.has_table(t)
has_table(s, t) == s[t].exists

\* inspector.get_table_names()
get_table_names(s) == {t \in Names : s[t].exists}

\* DROP TABLE t
DropTable(s, t) == [s EXCEPT ![t] = NoTable]

\* a rename that copies the rows and leaves the source table in place
RenameTableKeepsSource(s, a, b) == [s EXCEPT ![b] = s[a]]

\* ALTER TABLE a RENAME TO b (b is absent when it is issued)
RenameTable(s, a, b) == [s EXCEPT ![b] = s[a], ![a] = NoTable]

(***************************************************************************)
(* The retrying fetchers                                                   *)
(***************************************************************************)
\* What one call of the data source does: it raises, or returns rows, an
\* empty frame, or None.
Outcomes == {"raise", "rows", "empty", "none"}

NoData == {"empty", "none"}

\* Fetchers of one work unit, run by an orchestrator:
\*   get_qfq_data         daily_qfq.py:61-79 (get_daily_data, daily.py:41-55,
\*                        has the same loop)
\*   fetch_concept_daily  sync_ths_concepts.py:75-92
\*   fetch_minute_data    ak_stock_minute.py:70-123 (ak_stock_minute_em.py,
\*                        stock_minute.py, sync_em_concepts_daily_adata.py and
\*                        sync_ths_industry_daily.py have the same loop)
\*   fetch_concepts       sync_stock_concept_adata_ths.py:117-128
UnitFetchers == {"get_qfq_data", "fetch_concept_daily", "fetch_minute_data", "fetch_concepts"}

\* Fetchers of a whole list, run once by a script:
\*   fetch_concept_list   sync_ths_concept_list.py:28-49
\*   sync_stock_hot_rank  sync_stock_hot_rank.py:45-71 (the loop is inline)
ListFetchers == {"fetch_concept_list", "sync_stock_hot_rank"}

FetcherKinds == UnitFetchers \cup ListFetchers

MAX_RETRIES == 3
HotRankRetries == 2
QfqBackoff == 2
MinuteBackoff == 2
RETRY_BACKOFF_SECONDS == 15
ListBackoff == 5
HotRankWait == 3

\* the attempt bounds a fetcher can be configured with
RetriesOf(kind) ==
    CASE kind \in {"get_qfq_data", "fetch_concept_daily", "fetch_concepts"} -> 1..MaxCfgRetries
      [] kind = "sync_stock_hot_rank" -> {HotRankRetries}
      [] OTHER -> {MAX_RETRIES}

\* the backoff bases a fetcher can be configured with
BasesOf(kind) ==
    CASE kind = "get_qfq_data" -> {QfqBackoff}
      [] kind = "fetch_minute_data" -> {MinuteBackoff}
      [] kind = "fetch_concept_daily" -> {RETRY_BACKOFF_SECONDS}
      [] kind = "fetch_concept_list" -> {ListBackoff}
      [] kind = "sync_stock_hot_rank" -> {HotRankWait}
      [] OTHER -> 1..MaxPause

\* a loop that runs one attempt too many
MoreAttemptsOffByOne(a, r) == a <= r

\* for attempt in range(max_retries): another attempt is due
MoreAttempts(a, r) == a < r

\* every fetcher treating a response without rows as a failed attempt
RetriesNoDataAlways(kind) == TRUE

\* fetchers that treat a response without rows as a failed attempt
\* (sync_ths_concept_list.py:40-41, sync_stock_hot_rank.py:54-58)
RetriesNoData(kind) == kind \in ListFetchers

\* whether the call's outcome sends the fetcher into its except block
AttemptFailed(kind, o) == o = "raise" \/ (RetriesNoData(kind) /\ o \in NoData)

\* fetchers whose except block sleeps after every failed attempt, the last
\* one included; the others sleep only if another attempt follows
SleepsAlways(kind) == kind \in {"fetch_concept_daily", "fetch_minute_data", "fetch_concept_list"}

\* a backoff that does not grow with the attempt number
DelayFlat(kind, b, n) == b

\* the delay slept after the n-th failed attempt (n = 1, 2, ...)
Delay(kind, b, n) == IF kind = "sync_stock_hot_rank" THEN b ELSE b * n

\* what the fetcher returns for a call that did not fail: get_qfq_data and
\* fetch_minute_data turn None into an empty frame, the others return what
\* they got
OnSuccess(kind, o) ==
    IF kind \in {"get_qfq_data", "fetch_minute_data"} /\ o = "none" THEN "empty" ELSE o

\* what the fetcher does when every attempt failed: an empty frame, None,
\* a RuntimeError raised to the caller, or False
OnExhausted(kind) ==
    CASE kind \in {"get_qfq_data", "fetch_concept_daily", "fetch_minute_data"} -> "empty"
      [] kind = "fetch_concepts" -> "none"
      [] kind = "fetch_concept_list" -> "raised"
      [] OTHER -> "False"

Units == 1..MaxUnits

\* index 0 stands for the batch a previous run left in the shadow table
Units0 == 0..MaxUnits

NoFuture == [val |-> "pending", msg |-> "None"]

NoSource == [truth |-> "pending", n |-> 0]

EmptyBag == [u \in Units0 |-> 0]

RunIdle ==
    /\ orch = "none"
    /\ resume = FALSE
    /\ nunits = 0
    /\ max_workers = 0
    /\ ust = [u \in Units |-> "none"]
    /\ src = [u \in Units |-> NoSource]
    /\ fut = [u \in Units |-> NoFuture]
    /\ wr = [u \in Units |-> "none"]
    /\ shadow = [exists |-> FALSE, rows |-> EmptyBag]
    /\ first_batch = FALSE
    /\ total_records = 0
    /\ success_count = 0
    /\ finished = 0
    /\ failed = <<>>
    /\ rpc = "idle"
    /\ rret = "none"
    /\ manifest = [exists |-> FALSE, units |-> <<>>]

\* no _create_indexes call across a swap is under way
IndexIdle ==
    /\ ix_table = <<>>
    /\ ix_store = <<>>
    /\ ix_issued = <<>>
    /\ ix_pc = <<>>
    /\ ix_i = <<>>

CallersIdle ==
    /\ htable = "none"
    /\ hstore = "none"
    /\ inspector = FALSE
    /\ existing_tables = {}
    /\ hop = <<>>
    /\ hpc = <<>>
    /\ hidx = <<>>
    /\ existing_indexes = <<>>
    /\ asked = <<>>
    /\ swallowed = <<>>
    /\ hret = <<>>
    /\ hlog = <<>>
    /\ htemp = <<>>
    /\ hsec = <<>>
    /\ hempty = <<>>
    /\ herr = <<>>
    /\ table_lock = 0
    /\ touched = <<>>
    /\ hcalls = <<>>

HandlerIdle ==
    /\ CallersIdle
    /\ IndexIdle

ManifestIdle ==
    /\ failed_list = <<>>
    /\ mfile = "none"
    /\ mnames = "none"
    /\ mstep = "none"

PoolIdle ==
    /\ pipe = "none"
    /\ pworkers = 0
    /\ pst = [u \in Units |-> "none"]
    /\ lcur = 0
    /\ db_retry = [u \in Units |-> 0]
    /\ mpc = "none"
    /\ crows = <<>>

FetchIdle ==
    /\ fkind = "none"
    /\ retries = 0
    /\ base = 0
    /\ attempt = 0
    /\ calls = <<>>
    /\ sleeps = <<>>
    /\ fres = "pending"
    /\ fpc = "idle"

SwapIdle ==
    /\ impl = "none"
    /\ pairs = <<>>
    /\ store = [t \in Names |-> NoTable]
    /\ cache = {}
    /\ handler = FALSE
    /\ k = 1
    /\ swpc = "idle"
    /\ ret = "none"
    /\ pre = store
    /\ runs = 0
    /\ diedAt = "none"
    /\ fault = FALSE

InitFetch ==
    /\ fkind \in FetcherKinds
    /\ retries \in RetriesOf(fkind)
    /\ base \in BasesOf(fkind)
    /\ attempt = 0
    /\ calls = <<>>
    /\ sleeps = <<>>
    /\ fres = "pending"
    /\ fpc = "loop"
    /\ SwapIdle
    /\ RunIdle
    /\ PoolIdle
    /\ HandlerIdle
    /\ ManifestIdle

\* One pass of the retry loop: the call, and the except block if it failed.
FetchAttempt ==
    /\ fpc = "loop"
    /\ MoreAttempts(attempt, retries)
    /\ \E o \in Outcomes :
         /\ calls' = Append(calls, o)
         /\ IF ~AttemptFailed(fkind, o)
              THEN /\ fres' = OnSuccess(fkind, o)
                   /\ fpc' = "done"
                   /\ UNCHANGED <<attempt, sleeps>>
              ELSE LET last == attempt + 1 >= retries
                   IN /\ attempt' = attempt + 1
                      /\ sleeps' = IF SleepsAlways(fkind) \/ ~last
                                     THEN Append(sleeps, Delay(fkind, base, attempt + 1))
                                     ELSE sleeps
                      \* sync_stock_hot_rank.py:65-67 returns from the except block
                      /\ IF fkind = "sync_stock_hot_rank" /\ last
                           THEN fres' = "False" /\ fpc' = "done"
                           ELSE UNCHANGED <<fres, fpc>>
    /\ UNCHANGED <<fkind, retries, base, besidesFetch>>

\* The loop ran out of attempts: the code after it.
FetchExhausted ==
    /\ fpc = "loop"
    /\ ~MoreAttempts(attempt, retries)
    /\ fres' = OnExhausted(fkind)
    /\ fpc' = "done"
    /\ UNCHANGED <<fkind, retries, base, attempt, calls, sleeps, besidesFetch>>

NextFetch ==
    \/ FetchAttempt
    \/ FetchExhausted

SpecFetch == InitFetch /\ [][NextFetch]_vars

(***************************************************************************)
(* The swap scripts                                                        *)
(***************************************************************************)
\* scripts that drop the old table before they look for the new one
DropFirst == {"apply_table", "apply_stock_table", "rename_daily_qfq_table"}

\* scripts that look for the new table first
CheckFirst == {"move_qfq_table", "apply_concept_tables"}

SwapImpls == DropFirst \cup CheckFirst

Pair(n, o) == [new |-> n, old |-> o]

\* The pairs a script works on.  apply_table takes any two validated names
\* from the command line, the same name twice included; the others have
\* theirs fixed.
PairsOf(i) ==
    CASE i = "apply_table" ->
           {<<Pair("tbl_new", o)>> : o \in {"tbl", "tbl_new"}}
      [] i = "apply_concept_tables" ->
           {<<Pair("tbl_new", "tbl"), Pair("meta_new", "meta")>>}
      [] OTHER -> {<<Pair("tbl_new", "tbl")>>}

CurNew == pairs[k].new
CurOld == pairs[k].old

AllPairNames == {pairs[i].new : i \in 1..Len(pairs)} \cup {pairs[i].old : i \in 1..Len(pairs)}

InitSwap ==
    /\ impl \in SwapImpls
    /\ pairs \in PairsOf(impl)
    /\ store \in [Names -> TableStates]
    \* only apply_concept_tables touches the second pair of tables
    /\ impl # "apply_concept_tables" => store["meta"] = NoTable /\ store["meta_new"] = NoTable
    /\ cache = {}
    /\ handler = FALSE
    /\ k = 1
    /\ swpc = "idle"
    /\ ret = "none"
    /\ pre = store
    /\ runs = 0
    /\ diedAt = "none"
    /\ fault = FALSE
    /\ FetchIdle
    /\ RunIdle
    /\ PoolIdle
    /\ HandlerIdle
    /\ ManifestIdle

\* The script is started: a new process, with no handler yet.
SwapInvoke ==
    /\ swpc \in {"idle", "done", "dead"}
    /\ runs < MaxRuns
    /\ runs' = runs + 1
    /\ swpc' = "start"
    /\ pre' = store
    /\ handler' = FALSE
    /\ cache' = {}
    /\ k' = 1
    /\ ret' = "none"
    /\ diedAt' = IF swpc = "dead" THEN diedAt ELSE "none"
    /\ fault' = FALSE
    /\ UNCHANGED <<store, impl, pairs, besidesSwap>>

Return(v) ==
    /\ ret' = v
    /\ swpc' = "done"

\* apply_table.py:47-49: equal names need no work
SwapStart ==
    /\ swpc = "start"
    /\ IF impl = "apply_table" /\ CurNew = CurOld
         THEN Return("True")
         ELSE swpc' = "connect" /\ ret' = ret
    /\ UNCHANGED <<store, cache, handler, impl, pairs, k, pre, runs, diedAt, fault, besidesSwap>>

\* get_db_handler(): DatabaseHandler.__init__ and _connect.  The cache is
\* loaded with the store's table names; it is left empty if the inspector
\* cannot be created; a failed connection raises, which every script turns
\* into a False return.
SwapConnect ==
    /\ swpc = "connect"
    /\ \/ /\ handler' = TRUE
          /\ cache' = get_table_names(store)
          /\ swpc' = IF impl \in DropFirst THEN "drop" ELSE "precheck"
          /\ ret' = ret
          /\ fault' = fault
       \/ /\ handler' = TRUE
          /\ cache' = {}
          /\ swpc' = IF impl \in DropFirst THEN "drop" ELSE "precheck"
          /\ ret' = ret
          /\ fault' = fault
       \/ /\ UNCHANGED <<handler, cache>>
          /\ Return("False")
          /\ fault' = TRUE
    /\ UNCHANGED <<store, impl, pairs, k, pre, runs, diedAt, besidesSwap>>

\* after a pair of apply_concept_tables: the next pair, or the cache cleanup
NextPair ==
    IF k < Len(pairs)
      THEN k' = k + 1 /\ swpc' = "precheck"
      ELSE k' = k /\ swpc' = "invalidate"

\* move_qfq_table.py:32-34 and apply-ths-concept-new.py:23-25: the new table
\* is looked for before anything is dropped.  move_qfq_table returns False;
\* rename_table logs, skips the pair and returns True.
SwapPrecheck ==
    /\ swpc = "precheck"
    /\ impl \in CheckFirst
    /\ IF has_table(store, CurNew)
         THEN swpc' = "drop" /\ UNCHANGED <<ret, k>>
         ELSE IF impl = "move_qfq_table"
                THEN Return("False") /\ k' = k
                ELSE NextPair /\ ret' = ret
    /\ UNCHANGED <<store, cache, handler, impl, pairs, pre, runs, diedAt, fault, besidesSwap>>

\* if has_table(old): DROP TABLE old; commit.  The statement may raise.
SwapDrop ==
    /\ swpc = "drop"
    /\ IF has_table(store, CurOld)
         THEN \/ /\ store' = DropTable(store, CurOld)
                 /\ swpc' = "rename"
                 /\ ret' = ret
                 /\ fault' = fault
              \/ /\ store' = store
                 /\ Return("False")
                 /\ fault' = TRUE
         ELSE /\ store' = store
              /\ swpc' = "rename"
              /\ ret' = ret
              /\ fault' = fault
    /\ UNCHANGED <<cache, handler, impl, pairs, k, pre, runs, diedAt, besidesSwap>>

\* ALTER TABLE new RENAME TO old; commit.  The drop-first scripts look for
\* the new table only here (apply_table.py:63-65).  The statement may raise.
SwapRename ==
    /\ swpc = "rename"
    /\ IF ~has_table(store, CurNew)
         THEN /\ store' = store
              /\ Return("False")
              /\ k' = k
              /\ fault' = fault
         ELSE \/ /\ store' = RenameTable(store, CurNew, CurOld)
                 /\ ret' = IF impl = "move_qfq_table" THEN "True" ELSE ret
                 /\ IF impl \in DropFirst
                      THEN swpc' = "invalidate" /\ k' = k
                      ELSE IF impl = "move_qfq_table"
                             THEN swpc' = "done" /\ k' = k
                             ELSE NextPair
                 /\ fault' = fault
              \/ /\ store' = store
                 /\ Return("False")
                 /\ k' = k
                 /\ fault' = TRUE
    /\ UNCHANGED <<cache, handler, impl, pairs, pre, runs, diedAt, besidesSwap>>

\* with db_handler._table_lock: discard the names from _existing_tables
\* (apply_table.py:72-80, apply-ak-stock-minute-new.py:71-76,
\* apply-qfq-new.py:46-53, apply-ths-concept-new.py:56-61).
\* move_qfq_table has no such step.
SwapInvalidate ==
    /\ swpc = "invalidate"
    /\ cache' = cache \ AllPairNames
    /\ Return("True")
    /\ UNCHANGED <<store, handler, impl, pairs, k, pre, runs, diedAt, fault, besidesSwap>>

\* The process dies inside the script.  DDL is not transactional: what was
\* committed stays.
SwapCrash ==
    /\ swpc \notin {"idle", "done", "dead"}
    /\ diedAt' = swpc
    /\ swpc' = "dead"
    /\ UNCHANGED <<store, cache, handler, impl, pairs, k, ret, pre, runs, fault, besidesSwap>>

NextSwap ==
    \/ SwapInvoke
    \/ SwapStart
    \/ SwapConnect
    \/ SwapPrecheck
    \/ SwapDrop
    \/ SwapRename
    \/ SwapInvalidate
    \/ SwapCrash

SpecSwap == InitSwap /\ [][NextSwap]_vars

(***************************************************************************)
(* The orchestrators                                                       *)
(***************************************************************************)
\*   sync_concepts      sync_ths_concepts.py:217-347
\*   sync_daily_qfq     daily_qfq.py:81-176
\*   sync_stock_minute  ak_stock_minute.py:137-222
Orchestrators ==
    {"sync_concepts", "sync_daily_qfq", "sync_stock_minute", "stock_minute", "sync_stock_concept"}

\* the fetcher each orchestrator runs for a unit
FetcherOf(o) ==
    CASE o = "sync_concepts" -> "fetch_concept_daily"
      [] o = "sync_daily_qfq" -> "get_qfq_data"
      [] o = "sync_stock_concept" -> "fetch_concepts"
      [] OTHER -> "fetch_minute_data"

\* stock_minute.py fetches and writes its units one after the other in the
\* main thread; the others hand the units to a ThreadPoolExecutor
Sequential(o) == o = "stock_minute"

\* an orchestrator that gives up at the first unit that fails, whichever
AbortsAlways(o) == TRUE

\* stock_minute.py breaks out of its loop at the first unit that fails, is
\* empty or cannot be written, and marks the units after it as skipped
AbortsOnFailure(o) == o = "stock_minute"

\* every task writing its own rows
WritesInAnyWorker(o) == TRUE

\* process_stock writes the unit's rows itself, in the pool thread; the
\* others write in the loop over the completed futures
WritesInWorker(o) == o = "sync_stock_concept"

\* orchestrators that write a failure manifest at the end of a run
KeepsManifest(o) == o \in {"sync_concepts", "stock_minute", "sync_stock_concept"}

\* orchestrators that remove the manifest at the end of a run without failures
RemovesCleanManifest(o) == o \in {"stock_minute", "sync_stock_concept"}

\* orchestrators whose return value says whether anything was written
ReportsWritten(o) == o \in {"sync_concepts", "stock_minute"}

\* What the data source did for a unit, over all attempts: it returned rows,
\* an empty frame or None, or every attempt raised ("error").  For
\* sync_concepts the rows may also fail prepare_daily_records ("bad": it
\* raised; "filtered": no valid row was left).
TruthsOf(o) ==
    {"rows", "empty", "none", "error"}
      \cup (IF o = "sync_concepts" THEN {"bad", "filtered"} ELSE {})

\* what the fetcher hands back to the task
FetchValue(kind, truth) ==
    CASE truth = "error" -> OnExhausted(kind)
      [] truth \in {"bad", "filtered"} -> OnSuccess(kind, "rows")
      [] OTHER -> OnSuccess(kind, truth)

\* What the unit's future holds.  process_concept_task
\* (sync_ths_concepts.py:163-182) returns (concept, frame or None, message);
\* it raises on a None from the fetcher (raw_df.empty).  process_stock
\* (sync_stock_concept_adata_ths.py:199-264) returns a result that says
\* whether the unit was written.  The other orchestrators run the fetcher
\* itself.
TaskFuture(o, truth) ==
    LET v == FetchValue(FetcherOf(o), truth)
    IN CASE o = "sync_concepts" ->
              (CASE v = "none" -> [val |-> "exception", msg |-> "None"]
                 [] v = "empty" -> [val |-> "None", msg |-> "return_empty"]
                 [] truth = "bad" -> [val |-> "None", msg |-> "process_failed"]
                 [] truth = "filtered" -> [val |-> "None", msg |-> "no_valid_rows"]
                 [] OTHER -> [val |-> "rows", msg |-> "None"])
         [] o = "sync_stock_concept" ->
              (IF v = "rows"
                 THEN [val |-> "rows", msg |-> "None"]
                 ELSE [val |-> "failed", msg |-> "no_concepts"])
         [] OTHER -> [val |-> v, msg |-> "None"]

\* runs that drop the shadow table before they write
\* (sync_ths_concepts.py:263-277, ak_stock_minute.py:125-134, 164)
DropsShadow(o, r) == (o = "sync_concepts" /\ ~r) \/ o = "sync_stock_minute"

\* runs that are to fill the shadow table from nothing
FullRun(o, r) == (o = "sync_concepts" /\ ~r) \/ o \in {"sync_daily_qfq", "sync_stock_minute"}

\* a run that never looks whether the table is there
AppendsNever(o, r) == FALSE

\* runs that append to the table they find
\* (sync_ths_concepts.py:278-287, stock_minute.py:290-295)
AppendsToExisting(o, r) == (o = "sync_concepts" /\ r) \/ o = "stock_minute"

NoShadow == [exists |-> FALSE, rows |-> EmptyBag]

EmptyShadow == [exists |-> TRUE, rows |-> EmptyBag]

\* the table a previous run left: one batch of rows
LegacyShadow == [exists |-> TRUE, rows |-> [EmptyBag EXCEPT ![0] = 1]]

\* to_sql(..., if_exists="replace"): the table holds the batch and nothing else
ReplaceWith(u) == [exists |-> TRUE, rows |-> [EmptyBag EXCEPT ![u] = 1]]

\* an append that writes the batch twice
AppendTwice(sh, u) == [exists |-> TRUE, rows |-> [sh.rows EXCEPT ![u] = @ + 2]]

\* an append that makes the table anew
AppendReplaces(sh, u) == ReplaceWith(u)

\* to_sql(..., if_exists="append"): the batch is added, the table created if absent
AppendTo(sh, u) == [exists |-> TRUE, rows |-> [sh.rows EXCEPT ![u] = @ + 1]]

\* replace_concepts: DELETE the unit's rows, then INSERT the new ones
DeleteInsert(sh, u) == [exists |-> TRUE, rows |-> [sh.rows EXCEPT ![u] = 1]]

\* DELETE committed, INSERT raised
DeleteOnly(sh, u) == [exists |-> TRUE, rows |-> [sh.rows EXCEPT ![u] = 0]]

\* The ways a write can go.  A replace that raises may have dropped or
\* re-created the table before it did (DDL is committed as it is issued);
\* an append that raises leaves the table as it was.
WriteResults(sh, first, u) ==
    IF first
      THEN {[ok |-> TRUE, table |-> ReplaceWith(u)]}
             \cup {[ok |-> FALSE, table |-> t] : t \in {sh, NoShadow, EmptyShadow}}
      ELSE {[ok |-> TRUE, table |-> AppendTo(sh, u)], [ok |-> FALSE, table |-> sh]}

\* the ways replace_concepts can go, its retries on a deadlock included
WorkerWriteResults(sh, u) ==
    {[ok |-> TRUE, table |-> DeleteInsert(sh, u)]}
      \cup {[ok |-> FALSE, table |-> t] : t \in {sh, DeleteOnly(sh, u)}}

\* a record counter that counts batches, not rows
RecordCountOne(n) == 1

\* record_count = len(prepared_df)
RecordCount(n) == n

\* orchestrators that keep a total of the records written
CountsRecords(o) == o # "sync_stock_concept"

\* the reason the orchestrator files a failed write under
WriteFailReason(o) ==
    IF o \in {"sync_concepts", "stock_minute"} THEN "write_failed" ELSE "exception"

\* whether the orchestrator keeps a failure list (sync_daily_qfq only prints)
KeepsFailedList(o) == o # "sync_daily_qfq"

Fail(u, reason) ==
    IF KeepsFailedList(orch)
      THEN Append(failed, [unit |-> u, reason |-> reason])
      ELSE failed

NoManifest == [exists |-> FALSE, units |-> <<>>]

\* the manifest an earlier run left: it names a unit of that run
StaleManifest == [exists |-> TRUE, units |-> <<0>>]

InitRun ==
    /\ orch \in Orchestrators
    /\ resume \in (IF orch = "sync_concepts" THEN BOOLEAN ELSE {FALSE})
    /\ nunits \in 1..MaxUnits
    \* a pool of one thread and the widest pool
    /\ max_workers \in (IF Sequential(orch) THEN {1} ELSE {1, MaxWorkers})
    /\ ust = [u \in Units |-> "none"]
    /\ src = [u \in Units |-> NoSource]
    /\ fut = [u \in Units |-> NoFuture]
    /\ wr = [u \in Units |-> "none"]
    /\ shadow \in {NoShadow, LegacyShadow}
    /\ first_batch = FALSE
    /\ total_records = 0
    /\ success_count = 0
    /\ finished = 0
    /\ failed = <<>>
    /\ rpc = "setup"
    /\ rret = "none"
    /\ manifest \in (IF KeepsManifest(orch) THEN {NoManifest, StaleManifest} ELSE {NoManifest})
    /\ SwapIdle
    /\ FetchIdle
    /\ PoolIdle
    /\ HandlerIdle
    /\ ManifestIdle

\* a run that goes on as if it had a handler
ConnectFailureIgnored(o) == "True"

\* get_db_handler() raises what _connect raised (db_handler.py:50-72,
\* 345-350).  sync_daily_qfq and the two sync_stock_minute catch it with
\* the rest of the function and return False (daily_qfq.py:174-176,
\* ak_stock_minute.py:220-222, stock_minute.py:384-386); from
\* sync_concepts and main of sync_stock_concept_adata_ths.py it goes up to
\* the end of the script, which exits with code 1 as for False
\* (sync_ths_concepts.py:385-387)
ConnectFailure(o) == "False"

\* Up to the submission of the units: the handler, the clean-up or the
\* creation of the table, first_batch, and executor.submit for every unit.
\* A store that cannot be reached ends the run with failure.  The DROP may
\* raise, which is caught and logged.
RunSetup ==
    /\ rpc = "setup"
    /\ \/ /\ rret' = ConnectFailure(orch)
          /\ rpc' = "failed"
          /\ UNCHANGED <<shadow, first_batch, ust>>
       \/ /\ \/ /\ DropsShadow(orch, resume)
                /\ shadow' = NoShadow
             \/ /\ ~WritesInWorker(orch)
                /\ shadow' = shadow
             \/ /\ WritesInWorker(orch)
                \* ensure_table: CREATE TABLE IF NOT EXISTS
                /\ shadow' = [shadow EXCEPT !.exists = TRUE]
          /\ first_batch' = IF AppendsToExisting(orch, resume) THEN ~shadow.exists
                            ELSE ~WritesInWorker(orch)
          /\ ust' = [u \in Units |-> IF u <= nunits THEN "queued" ELSE "none"]
          /\ rpc' = "drain"
          /\ rret' = rret
    /\ UNCHANGED <<orch, resume, nunits, max_workers, src, fut, wr, total_records,
                   success_count, finished, failed, manifest, besidesRun>>

Running == {u \in Units : ust[u] = "running"}

\* A pool thread takes the next submitted unit; the sequential loop takes
\* the next unit once it is through with the one before.
TaskStart(u) ==
    /\ rpc = "drain"
    /\ ust[u] = "queued"
    /\ \A v \in Units : v < u => ust[v] # "queued"
    /\ Cardinality(Running) < max_workers
    /\ Sequential(orch) => \A v \in Units : ust[v] # "finished"
    /\ ust' = [ust EXCEPT ![u] = "running"]
    /\ UNCHANGED <<orch, resume, nunits, max_workers, src, fut, wr, shadow, first_batch,
                   total_records, success_count, finished, failed, rpc, rret, manifest,
                   besidesRun>>

\* The unit's task ends: its future is done.  process_stock has written the
\* unit's rows by then, or failed to.
TaskFinish(u) ==
    /\ rpc = "drain"
    /\ ust[u] = "running"
    /\ \E truth \in TruthsOf(orch) :
         \* a frame of one row or of the most rows
         \E n \in (IF truth = "rows" THEN {1, MaxBatch} ELSE {0}) :
           /\ src' = [src EXCEPT ![u] = [truth |-> truth, n |-> n]]
           /\ IF WritesInWorker(orch) /\ TaskFuture(orch, truth).val = "rows"
                THEN \E w \in WorkerWriteResults(shadow, u) :
                       /\ shadow' = w.table
                       /\ wr' = [wr EXCEPT ![u] = IF w.ok THEN "ok" ELSE "raised"]
                       /\ fut' = [fut EXCEPT ![u] =
                                    IF w.ok THEN [val |-> "success", msg |-> "None"]
                                    ELSE [val |-> "failed", msg |-> "exception"]]
                ELSE /\ fut' = [fut EXCEPT ![u] = TaskFuture(orch, truth)]
                     /\ UNCHANGED <<shadow, wr>>
    /\ ust' = [ust EXCEPT ![u] = "finished"]
    /\ UNCHANGED <<orch, resume, nunits, max_workers, first_batch,
                   total_records, success_count, finished, failed, rpc, rret, manifest,
                   besidesRun>>

\* the reason a future that holds no rows is filed under
NoRowsReason(o, f) ==
    CASE f.val = "exception" ->
           (CASE o = "sync_concepts" -> "task_exception"
              [] o = "stock_minute" -> "request_failed"
              [] OTHER -> "exception")
      [] o \in {"sync_concepts", "sync_stock_concept"} -> f.msg
      [] OTHER -> "no_data"

\* the units the loop has not come to
Remaining == {v \in Units : ust[v] = "queued"}

\* no unit recorded as skipped
NoSkippedEntries(S) == <<>>

RECURSIVE SkippedEntries(_)
\* stock_minute.py:354-361: the units after the failed one, in their order
SkippedEntries(S) ==
    IF S = {} THEN <<>>
    ELSE LET v == CHOOSE x \in S : \A y \in S : x <= y
         IN <<[unit |-> v, reason |-> "skipped"]>> \o SkippedEntries(S \ {v})

\* the unit failed: it is recorded, and an orchestrator that aborts records
\* the units left as skipped and gives them up
FailUnit(u, reason) ==
    IF AbortsOnFailure(orch)
      THEN /\ failed' = Fail(u, reason) \o SkippedEntries(Remaining)
           /\ ust' = [v \in Units |-> IF v = u THEN "processed"
                                      ELSE IF v \in Remaining THEN "skipped" ELSE ust[v]]
           /\ finished' = finished + 1 + Cardinality(Remaining)
      ELSE /\ failed' = Fail(u, reason)
           /\ ust' = [ust EXCEPT ![u] = "processed"]
           /\ finished' = finished + 1

\* One pass of the loop over the completed futures (of the sequential loop:
\* the rest of the pass), for a unit whose fetch is done.
Process(u) ==
    /\ rpc = "drain"
    /\ ust[u] = "finished"
    /\ CASE fut[u].val = "success" ->
              /\ success_count' = success_count + 1
              /\ ust' = [ust EXCEPT ![u] = "processed"]
              /\ finished' = finished + 1
              /\ UNCHANGED <<wr, shadow, first_batch, total_records, failed>>
         [] fut[u].val = "rows" ->
              \E w \in WriteResults(shadow, first_batch, u) :
                /\ shadow' = w.table
                /\ IF w.ok
                     THEN /\ wr' = [wr EXCEPT ![u] = "ok"]
                          /\ first_batch' = FALSE
                          /\ total_records' = total_records + RecordCount(src[u].n)
                          /\ success_count' = success_count + 1
                          /\ failed' = failed
                          /\ ust' = [ust EXCEPT ![u] = "processed"]
                          /\ finished' = finished + 1
                     ELSE /\ wr' = [wr EXCEPT ![u] = "raised"]
                          /\ FailUnit(u, WriteFailReason(orch))
                          /\ UNCHANGED <<first_batch, total_records, success_count>>
         [] OTHER ->
              /\ FailUnit(u, NoRowsReason(orch, fut[u]))
              /\ UNCHANGED <<wr, shadow, first_batch, total_records, success_count>>
    /\ UNCHANGED <<orch, resume, nunits, max_workers, src, fut, rpc, rret, manifest,
                   besidesRun>>

\* the failure count of the end-of-run summary
FailedCount == IF KeepsFailedList(orch) THEN Len(failed) ELSE nunits - success_count

\* the unit ids of the failure list, in its order
FailedUnits == [i \in 1..Len(failed) |-> failed[i].unit]

\* The manifest after the run.  sync_concepts writes it only if a unit
\* failed (sync_ths_concepts.py:339-340); write_failed_codes
\* (stock_minute.py:227-243) and main (sync_stock_concept_adata_ths.py:386-400)
\* also remove the file when none did.
ManifestAfter(o, m, f) ==
    CASE ~KeepsManifest(o) -> m
      [] Len(f) > 0 -> [exists |-> TRUE, units |-> f]
      [] RemovesCleanManifest(o) -> NoManifest
      [] OTHER -> m

\* return total_records > 0 (sync_ths_concepts.py:347); return any_written
\* (stock_minute.py:339, 382)
AnyWritten == IF orch = "stock_minute" THEN success_count > 0 ELSE total_records > 0

\* The loop is over: the summary, the manifest and the return value.
RunSummary ==
    /\ rpc = "drain"
    /\ \A u \in Units : u <= nunits => ust[u] \in {"processed", "skipped"}
    /\ rret' = IF ReportsWritten(orch) /\ ~AnyWritten THEN "False" ELSE "True"
    /\ manifest' = ManifestAfter(orch, manifest, FailedUnits)
    /\ rpc' = "done"
    /\ UNCHANGED <<orch, resume, nunits, max_workers, ust, src, fut, wr, shadow, first_batch,
                   total_records, success_count, finished, failed, besidesRun>>

NextRun ==
    \/ RunSetup
    \/ \E u \in Units : TaskStart(u)
    \/ \E u \in Units : TaskFinish(u)
    \/ \E u \in Units : Process(u)
    \/ RunSummary

SpecRun == InitRun /\ [][NextRun]_vars

\* The run under fair scheduling: the pool threads and the main thread
\* are threads of one process and each gets to run, a call of the data
\* source returns or raises, and a statement sent to the store returns or
\* raises; so a step that can be taken is taken in the end.
\* the longest unit list of the fair runs
MaxFairUnits == 2

InitRunFair ==
    /\ InitRun
    /\ nunits <= MaxFairUnits

SpecRunFair == InitRunFair /\ [][NextRun]_vars /\ WF_vars(NextRun)

(***************************************************************************)
(* The threads of a pool pipeline                                          *)
(*                                                                         *)
(* The pool threads run the unit tasks; the main thread runs the           *)
(* as_completed loop.  A unit is "queued", then "fetching" in a pool       *)
(* thread.  process_stock then writes in the same thread: "deleting"       *)
(* (the DELETE of replace_concepts is with the store), "inserting" (its    *)
(* INSERT is), "backoff" (the sleep before another try), and the task      *)
(* returns ("returned").  The tasks of the other pipelines return their    *)
(* frame ("rows") or none ("returned"), and the loop sends the frame to    *)
(* the store ("writing").  "done": the loop is through with the unit.      *)
(***************************************************************************)
PoolPipelines == {o \in Orchestrators : ~Sequential(o)}

\* max_db_retry = 3
max_db_retry == 3

InitPool ==
    /\ pipe \in PoolPipelines
    /\ pworkers \in 1..MaxWorkers
    /\ pst = [u \in Units |-> "queued"]
    /\ lcur = 0
    /\ db_retry = [u \in Units |-> 0]
    /\ mpc = "loop"
    /\ crows = [u \in Units |-> "list"]
    /\ SwapIdle
    /\ FetchIdle
    /\ RunIdle
    /\ HandlerIdle
    /\ ManifestIdle

\* the units a pool thread is busy with
InWorker == {u \in Units : pst[u] \in {"fetching", "deleting", "inserting", "backoff"}}

\* the units a statement that writes the pipeline's table is in progress for
InWrite == {u \in Units : pst[u] \in {"deleting", "inserting", "writing"}}

\* A free pool thread takes the next submitted unit.
PoolTake(u) ==
    /\ pst[u] = "queued"
    /\ \A v \in Units : v < u => pst[v] # "queued"
    /\ Cardinality(InWorker) < pworkers
    /\ pst' = [pst EXCEPT ![u] = "fetching"]
    /\ UNCHANGED <<pipe, pworkers, mpc, lcur, db_retry, crows, besidesPool>>

\* The fetch of the unit is over.  process_stock goes on to
\* replace_concepts if it has concepts; the other tasks return.
FetchEnd(u) ==
    /\ pst[u] = "fetching"
    /\ \E rows \in BOOLEAN :
         pst' = [pst EXCEPT ![u] = IF ~rows THEN "returned"
                                   ELSE IF WritesInWorker(pipe) THEN "deleting"
                                   ELSE "rows"]
    /\ UNCHANGED <<pipe, pworkers, mpc, lcur, db_retry, crows, besidesPool>>

\* replace_concepts raised: another try after a sleep if it was a deadlock
\* and tries are left, else the task returns the error.
WriteRaised(u) ==
    \E deadlock \in BOOLEAN :
      /\ db_retry' = [db_retry EXCEPT ![u] = @ + 1]
      /\ pst' = [pst EXCEPT ![u] = IF deadlock /\ db_retry[u] + 1 < max_db_retry
                                     THEN "backoff" ELSE "returned"]

\* DELETE FROM stock_concept WHERE ts_code = :ts_code and its commit
\* (sync_stock_concept_adata_ths.py:171-172)
Delete(rows, u) == [rows EXCEPT ![u] = "none"]

\* The DELETE of replace_concepts and its commit return, or the DELETE
\* raises.
WorkerDelete(u) ==
    /\ pst[u] = "deleting"
    /\ \/ /\ pst' = [pst EXCEPT ![u] = "inserting"]
          /\ crows' = Delete(crows, u)
          /\ UNCHANGED db_retry
       \/ /\ WriteRaised(u)
          /\ UNCHANGED crows
    /\ UNCHANGED <<pipe, pworkers, mpc, lcur, besidesPool>>

\* The INSERT of replace_concepts and its commit return
\* (sync_stock_concept_adata_ths.py:186-196), or the INSERT raises and
\* the connection is closed with nothing of it committed.
WorkerInsert(u) ==
    /\ pst[u] = "inserting"
    /\ \/ /\ pst' = [pst EXCEPT ![u] = "returned"]
          /\ crows' = [crows EXCEPT ![u] = "list"]
          /\ UNCHANGED db_retry
       \/ /\ WriteRaised(u)
          /\ UNCHANGED crows
    /\ UNCHANGED <<pipe, pworkers, mpc, lcur, besidesPool>>

\* The sleep is over: replace_concepts is called again.
WorkerRetry(u) ==
    /\ pst[u] = "backoff"
    /\ pst' = [pst EXCEPT ![u] = "deleting"]
    /\ UNCHANGED <<pipe, pworkers, mpc, lcur, db_retry, crows, besidesPool>>

\* The loop takes a completed future: a frame goes to the store with
\* to_sql, anything else is counted and the loop goes on.
LoopTake(u) ==
    /\ mpc = "loop"
    /\ lcur = 0
    /\ pst[u] \in {"rows", "returned"}
    /\ IF pst[u] = "rows"
         THEN /\ pst' = [pst EXCEPT ![u] = "writing"]
              /\ lcur' = u
         ELSE /\ pst' = [pst EXCEPT ![u] = "done"]
              /\ lcur' = 0
    /\ UNCHANGED <<pipe, pworkers, mpc, db_retry, crows, besidesPool>>

\* to_sql returns or raises: the loop is through with the unit.
LoopWriteEnd ==
    /\ lcur # 0
    /\ pst' = [pst EXCEPT ![lcur] = "done"]
    /\ lcur' = 0
    /\ UNCHANGED <<pipe, pworkers, mpc, db_retry, crows, besidesPool>>

\* every future was taken: the loop and the with block end, the summary
\* is printed and the manifest written (sync_ths_concepts.py:329-347)
PoolSummary ==
    /\ mpc = "loop"
    /\ \A u \in Units : pst[u] = "done"
    /\ mpc' = "summary"
    /\ UNCHANGED <<pipe, pworkers, pst, lcur, db_retry, crows, besidesPool>>

\* KeyboardInterrupt is raised in the main thread, inside the as_completed
\* loop; no handler of the loop catches it (they name Exception), a write
\* under way is given up, and the exception leaves the with block, whose
\* exit is executor.shutdown(wait=True) (sync_ths_concepts.py:289-327)
Interrupt ==
    /\ mpc = "loop"
    /\ mpc' = "shutdown"
    /\ lcur' = 0
    /\ pst' = IF lcur = 0 THEN pst ELSE [pst EXCEPT ![lcur] = "done"]
    /\ UNCHANGED <<pipe, pworkers, db_retry, crows, besidesPool>>

\* shutdown has waited for the pool threads and what was queued for them:
\* the exception reaches __main__, which prints a line and exits
\* (sync_ths_concepts.py:378-384); the code after the loop is not run
InterruptExit ==
    /\ mpc = "shutdown"
    /\ \A u \in Units : pst[u] \notin {"queued", "fetching", "deleting", "inserting", "backoff"}
    /\ mpc' = "interrupted"
    /\ UNCHANGED <<pipe, pworkers, pst, lcur, db_retry, crows, besidesPool>>

NextPool ==
    \/ \E u \in Units : PoolTake(u)
    \/ \E u \in Units : FetchEnd(u)
    \/ \E u \in Units : WorkerDelete(u)
    \/ \E u \in Units : WorkerInsert(u)
    \/ \E u \in Units : WorkerRetry(u)
    \/ \E u \in Units : LoopTake(u)
    \/ LoopWriteEnd
    \/ PoolSummary
    \/ Interrupt
    \/ InterruptExit

SpecPool == InitPool /\ [][NextPool]_vars

(***************************************************************************)
(* DatabaseHandler and its callers                                         *)
(*                                                                         *)
(* Two callers share one handler and one table name.  Each makes one call: *)
(* ensure_table_exists, insert_data, _create_indexes, or the first-batch   *)
(* write of an orchestrator (to_sql with if_exists="replace", then         *)
(* _create_indexes).  A caller's frame is the batch of its own id; batch 0 *)
(* is what the table held before.  One statement sent to the store is one  *)
(* step; to_sql is taken as one statement.  The store is changed by these  *)
(* callers only.                                                           *)
(***************************************************************************)
Callers == {1, 2}

Batches == Callers \cup {0}

HandlerOps ==
    {"ensure_table_exists", "insert_data", "_create_indexes", "first_batch",
     "first_batch_minute", "get_max_date", "empty_table"}

HTables == {"daily", "daily_qfq_new", "stock_basic", "ths_concept_daily_new"}

\* index_definitions (db_handler.py:140-163)
index_definitions(t) ==
    CASE t = "stock_basic" ->
           << <<"ts_code", "PRIMARY KEY">>, <<"symbol", "INDEX">>,
              <<"industry", "INDEX">>, <<"area", "INDEX">> >>
      [] t \in {"daily", "daily_qfq"} ->
           << <<"ts_code", "INDEX">>, <<"trade_date", "INDEX">>,
              <<"ts_code_trade_date", "INDEX (ts_code, trade_date)">> >>
      [] t = "stock_hot_rank" ->
           << <<"stock_code", "INDEX">>, <<"record_date", "INDEX">>,
              <<"ranking", "INDEX">>,
              <<"stock_code_record_date", "INDEX (stock_code, record_date)">> >>
      [] OTHER -> <<>>

\* the name with a trailing "_new" taken off
StripNew(t) ==
    CASE t = "daily_qfq_new" -> "daily_qfq"
      [] t = "ths_concept_daily_new" -> "ths_concept_daily"
      [] t = "daily_new" -> "daily"
      [] t = "stock_basic_new" -> "stock_basic"
      [] t = "stock_hot_rank_new" -> "stock_hot_rank"
      [] OTHER -> t

\* definition_table (db_handler.py:165-169)
definition_table(t) ==
    IF index_definitions(t) = <<>> /\ index_definitions(StripNew(t)) # <<>>
      THEN StripNew(t)
      ELSE t

IndexDefs(t) == index_definitions(definition_table(t))

IndexNames ==
    {"ts_code", "symbol", "industry", "area", "trade_date", "ts_code_trade_date"}

NoIndexes == [n \in IndexNames |-> 0]

NoRows == [b \in Batches |-> 0]

AbsentTable == [exists |-> FALSE, rows |-> NoRows, idx |-> NoIndexes, uniq |-> FALSE]

\* the tables of insert_data's de-duplicating variant (db_handler.py:239)
Deduplicated(t) == t \in {"daily_qfq", "daily"}

\* the table a previous process left, without and with its indexes and,
\* where insert_data adds one, its unique key
OldTable(t, indexed) ==
    [exists |-> TRUE,
     rows |-> [NoRows EXCEPT ![0] = 1],
     idx |-> [n \in IndexNames |->
                IF indexed /\ \E i \in 1..Len(IndexDefs(t)) :
                                IndexDefs(t)[i][1] = n /\ IndexDefs(t)[i][2] # "PRIMARY KEY"
                  THEN 1 ELSE 0],
     uniq |-> indexed /\ Deduplicated(t)]

\* a to_sql(if_exists="replace") that keeps what the table held
to_sql_replace_keeps(st, b) == [st EXCEPT !.exists = TRUE, !.rows[b] = @ + 1]

\* to_sql(if_exists="replace"): the table is dropped and created anew from
\* the frame, so its indexes and keys go with it
to_sql_replace(st, b) ==
    [exists |-> TRUE, rows |-> [NoRows EXCEPT ![b] = 1], idx |-> NoIndexes, uniq |-> FALSE]

\* to_sql(if_exists="append"): the frame is added, the table created if absent
to_sql_append(st, b) == [st EXCEPT !.exists = TRUE, !.rows[b] = @ + 1]

\* a store whose tables never get the unique key
AddUniqueKeyRefused(st) == st

\* ALTER TABLE ... ADD UNIQUE KEY: refused if the key is there or the rows
\* are not unique; the error is ignored (db_handler.py:245-255)
AddUniqueKey(st) ==
    IF st.exists /\ ~st.uniq /\ \A b \in Batches : st.rows[b] <= 1
      THEN [st EXCEPT !.uniq = TRUE]
      ELSE st

\* INSERT IGNORE ... SELECT * FROM temp: rows the unique key has are skipped
InsertIgnore(st, b) ==
    IF st.uniq /\ st.rows[b] > 0 THEN st ELSE [st EXCEPT !.rows[b] = @ + 1]

\* a store that takes a second index of the same name
CreateIndexUnchecked(st, n) == [raised |-> FALSE, table |-> [st EXCEPT !.idx[n] = @ + 1]]

\* CREATE INDEX: refused if the table is absent or has an index of the name
CreateIndex(st, n) ==
    IF st.exists /\ st.idx[n] = 0
      THEN [raised |-> FALSE, table |-> [st EXCEPT !.idx[n] = 1]]
      ELSE [raised |-> TRUE, table |-> st]

\* a cache that forgets the name
MarkNothing(names, n) == names

\* self._existing_tables.add(table_name)
MarkCreated(names, n) == names \cup {n}

\* set(self._inspector.get_table_names())
TableNames(st, t) == IF st.exists THEN {t} ELSE {}

\* int(datetime.now().timestamp()) of two calls: the same second or the next
Seconds == {1, 2}

\* where a call starts
FirstPc(op) ==
    CASE op = "ensure_table_exists" -> "cache_check"
      [] op = "insert_data" -> "empty_check"
      [] op = "_create_indexes" -> "idx_loop"
      [] op = "get_max_date" -> "max_date_check"
      [] op = "empty_table" -> "empty_table_check"
      [] OTHER -> "replace"

\* _connect (db_handler.py:50-72) has run: with an inspector the cache holds
\* the names of the store, without one it is empty
InitHandler ==
    /\ htable \in HTables
    /\ hstore \in {AbsentTable, OldTable(htable, FALSE), OldTable(htable, TRUE)}
    /\ inspector \in BOOLEAN
    /\ existing_tables = IF inspector THEN TableNames(hstore, htable) ELSE {}
    /\ hop \in [Callers -> HandlerOps]
    /\ hpc = [t \in Callers |-> FirstPc(hop[t])]
    /\ hidx = [t \in Callers |-> 1]
    /\ existing_indexes = [t \in Callers |-> {}]
    /\ asked = [t \in Callers |-> "no"]
    /\ swallowed = [t \in Callers |-> FALSE]
    /\ hret = [t \in Callers |-> "none"]
    /\ hlog = <<>>
    /\ htemp = [s \in Seconds |-> 0]
    /\ hsec = [t \in Callers |-> 0]
    /\ hempty \in [Callers -> BOOLEAN]
    /\ \A t \in Callers : hempty[t] => hop[t] = "insert_data"
    /\ herr = [t \in Callers |-> {}]
    /\ table_lock = 0
    /\ touched = [t \in Callers |-> "no"]
    /\ hcalls = [t \in Callers |-> 1]
    /\ IndexIdle
    /\ SwapIdle
    /\ FetchIdle
    /\ RunIdle
    /\ PoolIdle
    /\ ManifestIdle

\* caller t reads or writes _existing_tables inside "with self._table_lock"
Locked(t) ==
    /\ table_lock \in {0, t}
    /\ touched' = [touched EXCEPT ![t] = "locked"]

\* caller t reads or writes _existing_tables with no lock taken
Bare(t) == touched' = [touched EXCEPT ![t] = "bare"]

\* a statement of caller t's call raised
Raised(t, stmt) == herr' = [herr EXCEPT ![t] = @ \cup {stmt}]

\* a method without a handler of its own
CaughtNowhere(op) == "raised"

\* what an exception inside insert_data becomes for its caller: the
\* handler of the method logs it and returns False (db_handler.py:283-285)
Caught(op) == IF op = "insert_data" THEN "False" ELSE "raised"

\* ensure_table_exists returns: to its caller, or into insert_data
AfterEnsure(t) ==
    IF hop[t] = "insert_data"
      THEN /\ hpc' = [hpc EXCEPT ![t] = "insert"]
           /\ hret' = hret
      ELSE /\ hpc' = [hpc EXCEPT ![t] = "done"]
           /\ hret' = [hret EXCEPT ![t] = "returned"]

\* ensure_table_exists logs and re-raises (db_handler.py:134-136);
\* insert_data catches it and returns False (283-285)
EnsureRaises(t) ==
    /\ hpc' = [hpc EXCEPT ![t] = "done"]
    /\ hret' = [hret EXCEPT ![t] = Caught(hop[t])]

\* insert_data: an empty frame is logged and False returned
\* (db_handler.py:224-226)
EmptyCheck(t) ==
    /\ hpc[t] = "empty_check"
    /\ IF hempty[t]
         THEN /\ hpc' = [hpc EXCEPT ![t] = "done"]
              /\ hret' = [hret EXCEPT ![t] = "False"]
         ELSE /\ hpc' = [hpc EXCEPT ![t] = "known_check"]
              /\ hret' = hret
    /\ UNCHANGED <<htable, hstore, inspector, existing_tables, hop, hidx,
                   existing_indexes, asked, swallowed, hlog, htemp, hsec, hempty, herr,
                   table_lock, touched, hcalls, ix_table, ix_store, ix_issued, ix_pc, ix_i, besidesHandler>>

\* insert_data: table_known (db_handler.py:228-233)
KnownCheck(t) ==
    /\ hpc[t] = "known_check"
    /\ Locked(t)
    /\ hpc' = [hpc EXCEPT ![t] = IF htable \in existing_tables THEN "insert"
                                   ELSE "cache_check"]
    /\ UNCHANGED <<htable, hstore, inspector, existing_tables, hop, hidx,
                   existing_indexes, asked, swallowed, hret, hlog, htemp, hsec, hempty, herr, table_lock, hcalls, ix_table, ix_store, ix_issued, ix_pc, ix_i, besidesHandler>>

\* ensure_table_exists: the cache first (db_handler.py:94-98)
CacheCheck(t) ==
    /\ hpc[t] = "cache_check"
    /\ Locked(t)
    /\ IF htable \in existing_tables
         THEN AfterEnsure(t)
         ELSE /\ hpc' = [hpc EXCEPT ![t] = "has_table"]
              /\ hret' = hret
    /\ UNCHANGED <<htable, hstore, inspector, existing_tables, hop, hidx,
                   existing_indexes, asked, swallowed, hlog, htemp, hsec, hempty, herr, table_lock, hcalls, ix_table, ix_store, ix_issued, ix_pc, ix_i, besidesHandler>>

\* inspector.has_table(table_name) (db_handler.py:101-102)
HasTable(t) ==
    /\ hpc[t] = "has_table"
    /\ asked' = [asked EXCEPT ![t] = IF hstore.exists THEN "present" ELSE "absent"]
    /\ hpc' = [hpc EXCEPT ![t] = IF hstore.exists THEN "cache_add" ELSE "to_sql"]
    /\ UNCHANGED <<htable, hstore, inspector, existing_tables, hop, hidx,
                   existing_indexes, swallowed, hret, hlog, htemp, hsec, hempty, herr, table_lock, touched, hcalls, ix_table, ix_store, ix_issued, ix_pc, ix_i, besidesHandler>>

\* the table is there: the name is put in the cache (db_handler.py:125-132)
CacheAdd(t) ==
    /\ hpc[t] = "cache_add"
    /\ Locked(t)
    /\ existing_tables' = MarkCreated(existing_tables, htable)
    /\ AfterEnsure(t)
    /\ UNCHANGED <<htable, hstore, inspector, hop, hidx, existing_indexes, asked,
                   swallowed, hlog, htemp, hsec, hempty, herr, table_lock, hcalls, ix_table, ix_store, ix_issued, ix_pc, ix_i, besidesHandler>>

\* df.to_sql(table_name, ..., if_exists='replace') creates the table
\* (db_handler.py:103-106), or raises
ToSqlCreate(t) ==
    /\ hpc[t] = "to_sql"
    /\ \/ /\ hstore' = to_sql_replace(hstore, t)
          /\ hlog' = Append(hlog, [caller |-> t, mode |-> "replace"])
          /\ hpc' = [hpc EXCEPT ![t] = "idx_loop"]
          /\ hidx' = [hidx EXCEPT ![t] = 1]
          /\ hret' = hret
          /\ herr' = herr
       \/ /\ EnsureRaises(t)
          /\ Raised(t, "to_sql")
          /\ UNCHANGED <<hstore, hlog, hidx>>
    /\ UNCHANGED <<htable, inspector, existing_tables, hop, existing_indexes, asked,
                   swallowed, htemp, hsec, hempty, table_lock, touched, hcalls, ix_table, ix_store, ix_issued, ix_pc, ix_i, besidesHandler>>

\* the first-batch write of an orchestrator: to_sql(..., if_exists="replace")
\* and then _create_indexes (sync_ths_concepts.py:313-317,
\* stock_minute.py:329-331)
FirstBatchWrite(t) ==
    /\ hpc[t] = "replace"
    /\ \/ /\ hstore' = to_sql_replace(hstore, t)
          /\ hlog' = Append(hlog, [caller |-> t, mode |-> "replace"])
          /\ hpc' = [hpc EXCEPT ![t] = "idx_loop"]
          /\ hret' = hret
          /\ herr' = herr
       \/ /\ hpc' = [hpc EXCEPT ![t] = "done"]
          /\ hret' = [hret EXCEPT ![t] = "raised"]
          /\ Raised(t, "to_sql")
          /\ UNCHANGED <<hstore, hlog>>
    /\ UNCHANGED <<htable, inspector, existing_tables, hop, hidx, existing_indexes,
                   asked, swallowed, htemp, hsec, hempty, table_lock, touched, hcalls, ix_table, ix_store, ix_issued, ix_pc, ix_i, besidesHandler>>

\* after its first batch and the indexes sync_stock_minute of
\* stock_minute.py puts the name in the cache, under the lock
\* (stock_minute.py:332-334); sync_concepts (sync_ths_concepts.py:313-319)
\* and sync_daily_qfq (daily_qfq.py:144-152) have no such statement
FirstBatchMark(t) ==
    /\ hpc[t] = "mark"
    /\ Locked(t)
    /\ existing_tables' = MarkCreated(existing_tables, htable)
    /\ hpc' = [hpc EXCEPT ![t] = "done"]
    /\ hret' = [hret EXCEPT ![t] = "returned"]
    /\ UNCHANGED <<htable, hstore, inspector, hop, hidx, existing_indexes, asked,
                   swallowed, hlog, htemp, hsec, hempty, herr, table_lock,
                   hcalls, ix_table, ix_store, ix_issued, ix_pc, ix_i, besidesHandler>>

\* _create_indexes: the head of the loop over the table's index definitions
\* (db_handler.py:171-181).  PRIMARY KEY entries are passed over.  After
\* the last one _create_indexes returns.
IndexLoop(t) ==
    /\ hpc[t] = "idx_loop"
    /\ IF hidx[t] > Len(IndexDefs(htable))
         THEN /\ hidx' = hidx
              /\ IF hop[t] \in {"ensure_table_exists", "insert_data", "first_batch_minute"}
                   THEN /\ hpc' = [hpc EXCEPT ![t] = IF hop[t] = "first_batch_minute"
                                                       THEN "mark" ELSE "cache_update"]
                        /\ hret' = hret
                   ELSE /\ hpc' = [hpc EXCEPT ![t] = "done"]
                        /\ hret' = [hret EXCEPT ![t] = "returned"]
         ELSE /\ hret' = hret
              /\ IF IndexDefs(htable)[hidx[t]][2] = "PRIMARY KEY"
                   THEN /\ hidx' = [hidx EXCEPT ![t] = @ + 1]
                        /\ hpc' = hpc
                   ELSE /\ hidx' = hidx
                        /\ hpc' = [hpc EXCEPT ![t] = "get_indexes"]
    /\ UNCHANGED <<htable, hstore, inspector, existing_tables, hop, existing_indexes,
                   asked, swallowed, hlog, htemp, hsec, hempty, herr, table_lock, touched, hcalls, ix_table, ix_store, ix_issued, ix_pc, ix_i, besidesHandler>>

\* index_name_full, by the name of its definition
IndexName(t) == IndexDefs(htable)[hidx[t]][1]

\* inspector.get_indexes(table_name) (db_handler.py:183-188): it raises for
\* a table that is not there, which the handler of the loop body logs
\* (218-219)
GetIndexes(t) ==
    /\ hpc[t] = "get_indexes"
    /\ IF ~hstore.exists
         THEN /\ hidx' = [hidx EXCEPT ![t] = @ + 1]
              /\ hpc' = [hpc EXCEPT ![t] = "idx_loop"]
              /\ Raised(t, "get_indexes")
              /\ UNCHANGED existing_indexes
         ELSE LET seen == {n \in IndexNames : hstore.idx[n] > 0}
              IN /\ existing_indexes' = [existing_indexes EXCEPT ![t] = seen]
                 /\ herr' = herr
                 /\ IF IndexName(t) \in seen
                      THEN /\ hidx' = [hidx EXCEPT ![t] = @ + 1]
                           /\ hpc' = [hpc EXCEPT ![t] = "idx_loop"]
                      ELSE /\ hidx' = hidx
                           /\ hpc' = [hpc EXCEPT ![t] = "create_index"]
    /\ UNCHANGED <<htable, hstore, inspector, existing_tables, hop, asked, swallowed,
                   hret, hlog, htemp, hsec, hempty, table_lock, touched, hcalls, ix_table, ix_store, ix_issued, ix_pc, ix_i, besidesHandler>>

\* CREATE INDEX (db_handler.py:208-214): what it raises is logged
CreateIndexStep(t) ==
    /\ hpc[t] = "create_index"
    /\ hstore' = CreateIndex(hstore, IndexName(t)).table
    /\ IF CreateIndex(hstore, IndexName(t)).raised
         THEN Raised(t, "create_index")
         ELSE herr' = herr
    /\ hidx' = [hidx EXCEPT ![t] = @ + 1]
    /\ hpc' = [hpc EXCEPT ![t] = "idx_loop"]
    /\ UNCHANGED <<htable, inspector, existing_tables, hop, existing_indexes, asked,
                   swallowed, hret, hlog, htemp, hsec, hempty, table_lock, touched, hcalls, ix_table, ix_store, ix_issued, ix_pc, ix_i, besidesHandler>>

\* the cache after the table was created (db_handler.py:111-124), under
\* the lock: the name is added, or without an inspector one is made and,
\* the lock still held, the names are read anew; what that raises is ignored
CacheUpdate(t) ==
    /\ hpc[t] = "cache_update"
    /\ Locked(t)
    /\ IF inspector
         THEN /\ existing_tables' = MarkCreated(existing_tables, htable)
              /\ AfterEnsure(t)
              /\ UNCHANGED <<inspector, swallowed, herr, table_lock>>
         ELSE \/ /\ inspector' = TRUE
                 /\ table_lock' = t
                 /\ hpc' = [hpc EXCEPT ![t] = "refresh"]
                 /\ UNCHANGED <<existing_tables, swallowed, herr, hret>>
              \/ /\ swallowed' = [swallowed EXCEPT ![t] = TRUE]
                 /\ Raised(t, "refresh")
                 /\ AfterEnsure(t)
                 /\ UNCHANGED <<existing_tables, inspector, table_lock>>
    /\ UNCHANGED <<htable, hstore, hop, hidx, existing_indexes, asked, hlog,
                   htemp, hsec, hempty, hcalls, ix_table, ix_store, ix_issued, ix_pc, ix_i, besidesHandler>>

\* self._existing_tables = set(self._inspector.get_table_names())
\* (db_handler.py:120), then the lock is given back
CacheRefresh(t) ==
    /\ hpc[t] = "refresh"
    /\ Locked(t)
    /\ table_lock' = 0
    /\ \/ /\ existing_tables' = TableNames(hstore, htable)
          /\ UNCHANGED <<swallowed, herr>>
       \/ /\ swallowed' = [swallowed EXCEPT ![t] = TRUE]
          /\ Raised(t, "refresh")
          /\ UNCHANGED existing_tables
    /\ AfterEnsure(t)
    /\ UNCHANGED <<htable, hstore, inspector, hop, hidx, existing_indexes, asked,
                   hlog, htemp, hsec, hempty, hcalls, ix_table, ix_store, ix_issued, ix_pc, ix_i, besidesHandler>>


\* get_max_date looks the name up in the cache with no lock taken
\* (db_handler.py:314)
MaxDateCheck(t) ==
    /\ hpc[t] = "max_date_check"
    /\ Bare(t)
    /\ hpc' = [hpc EXCEPT ![t] = IF htable \in existing_tables THEN "max_date_query"
                                   ELSE "max_date_has_table"]
    /\ UNCHANGED <<htable, hstore, inspector, existing_tables, hop, hidx,
                   existing_indexes, asked, swallowed, hret, hlog, htemp, hsec, hempty,
                   herr, table_lock, hcalls, ix_table, ix_store, ix_issued, ix_pc, ix_i, besidesHandler>>

\* get_max_date asks the store (db_handler.py:315-317): None for a table
\* that is not there
MaxDateHasTable(t) ==
    /\ hpc[t] = "max_date_has_table"
    /\ asked' = [asked EXCEPT ![t] = IF hstore.exists THEN "present" ELSE "absent"]
    /\ IF hstore.exists
         THEN /\ hpc' = [hpc EXCEPT ![t] = "max_date_add"]
              /\ hret' = hret
         ELSE /\ hpc' = [hpc EXCEPT ![t] = "done"]
              /\ hret' = [hret EXCEPT ![t] = "None"]
    /\ UNCHANGED <<htable, hstore, inspector, existing_tables, hop, hidx,
                   existing_indexes, swallowed, hlog, htemp, hsec, hempty, herr,
                   table_lock, touched, hcalls, ix_table, ix_store, ix_issued, ix_pc, ix_i, besidesHandler>>

\* get_max_date adds the name to the cache with no lock taken
\* (db_handler.py:319-322)
MaxDateAdd(t) ==
    /\ hpc[t] = "max_date_add"
    /\ Bare(t)
    /\ existing_tables' = MarkCreated(existing_tables, htable)
    /\ hpc' = [hpc EXCEPT ![t] = "max_date_query"]
    /\ UNCHANGED <<htable, hstore, inspector, hop, hidx, existing_indexes, asked,
                   swallowed, hret, hlog, htemp, hsec, hempty, herr, table_lock,
                   hcalls, ix_table, ix_store, ix_issued, ix_pc, ix_i, besidesHandler>>

\* SELECT MAX(...) (db_handler.py:324-330): the date, or None when the
\* query raises, as for a table that is not there
MaxDateQuery(t) ==
    /\ hpc[t] = "max_date_query"
    /\ \/ /\ hstore.exists
          /\ hret' = [hret EXCEPT ![t] = "returned"]
          /\ herr' = herr
       \/ /\ hret' = [hret EXCEPT ![t] = "None"]
          /\ Raised(t, "select")
    /\ hpc' = [hpc EXCEPT ![t] = "done"]
    /\ UNCHANGED <<htable, hstore, inspector, existing_tables, hop, hidx,
                   existing_indexes, asked, swallowed, hlog, htemp, hsec, hempty,
                   table_lock, touched, hcalls, ix_table, ix_store, ix_issued, ix_pc, ix_i, besidesHandler>>

\* empty_table looks the name up in the cache with no lock taken
\* (db_handler.py:290) and asks the store about a name it does not find
\* (291-293)
EmptyTableCheck(t) ==
    /\ hpc[t] = "empty_table_check"
    /\ Bare(t)
    /\ IF htable \in existing_tables
         THEN /\ hpc' = [hpc EXCEPT ![t] = "truncate"]
              /\ UNCHANGED <<asked, hret>>
         ELSE /\ asked' = [asked EXCEPT ![t] = IF hstore.exists THEN "present" ELSE "absent"]
              /\ IF hstore.exists
                   THEN /\ hpc' = [hpc EXCEPT ![t] = "truncate"]
                        /\ hret' = hret
                   ELSE /\ hpc' = [hpc EXCEPT ![t] = "done"]
                        /\ hret' = [hret EXCEPT ![t] = "True"]
    /\ UNCHANGED <<htable, hstore, inspector, existing_tables, hop, hidx,
                   existing_indexes, swallowed, hlog, htemp, hsec, hempty, herr,
                   table_lock, hcalls, ix_table, ix_store, ix_issued, ix_pc, ix_i, besidesHandler>>

\* TRUNCATE TABLE (db_handler.py:297-308): True, or False when it raises
Truncate(t) ==
    /\ hpc[t] = "truncate"
    /\ \/ /\ hstore.exists
          /\ hstore' = [hstore EXCEPT !.rows = NoRows]
          /\ hret' = [hret EXCEPT ![t] = "True"]
          /\ herr' = herr
       \/ /\ hret' = [hret EXCEPT ![t] = "False"]
          /\ Raised(t, "truncate")
          /\ UNCHANGED hstore
    /\ hpc' = [hpc EXCEPT ![t] = "done"]
    /\ UNCHANGED <<htable, inspector, existing_tables, hop, hidx, existing_indexes,
                   asked, swallowed, hlog, htemp, hsec, hempty, table_lock, touched,
                   hcalls, ix_table, ix_store, ix_issued, ix_pc, ix_i, besidesHandler>>

\* insert_data writes the frame (db_handler.py:235-281).  For daily and
\* daily_qfq the frame goes to a table temp_<table>_<second> first
\* (241-242); the others take it with to_sql append (273-276).  What is
\* raised makes insert_data return False (283-285).
Insert(t) ==
    /\ hpc[t] = "insert"
    /\ IF Deduplicated(htable)
         THEN \/ \E s \in {1, t} :
                   /\ hsec' = [hsec EXCEPT ![t] = s]
                   /\ htemp' = [htemp EXCEPT ![s] = t]
                   /\ hpc' = [hpc EXCEPT ![t] = "add_unique"]
                   /\ UNCHANGED <<hstore, hlog, hret, herr>>
              \/ /\ hret' = [hret EXCEPT ![t] = Caught(hop[t])]
                 /\ hpc' = [hpc EXCEPT ![t] = "done"]
                 /\ Raised(t, "to_sql")
                 /\ UNCHANGED <<hstore, hlog, htemp, hsec>>
         ELSE /\ \/ /\ hstore' = to_sql_append(hstore, t)
                    /\ hlog' = Append(hlog, [caller |-> t, mode |-> "append"])
                    /\ hret' = [hret EXCEPT ![t] = "True"]
                    /\ herr' = herr
                 \/ /\ hret' = [hret EXCEPT ![t] = Caught(hop[t])]
                    /\ Raised(t, "to_sql")
                    /\ UNCHANGED <<hstore, hlog>>
              /\ hpc' = [hpc EXCEPT ![t] = "done"]
              /\ UNCHANGED <<htemp, hsec>>
    /\ UNCHANGED <<htable, inspector, existing_tables, hop, hidx, existing_indexes,
                   asked, swallowed, hempty, table_lock, touched, hcalls, ix_table, ix_store, ix_issued, ix_pc, ix_i, besidesHandler>>

\* ALTER TABLE ... ADD UNIQUE KEY in its own try (db_handler.py:247-256):
\* what it raises is logged and passed over
AlterAddUnique(t) ==
    /\ hpc[t] = "add_unique"
    /\ hstore' = AddUniqueKey(hstore)
    /\ IF AddUniqueKey(hstore) = hstore
         THEN Raised(t, "alter")
         ELSE herr' = herr
    /\ hpc' = [hpc EXCEPT ![t] = "insert_ignore"]
    /\ UNCHANGED <<htable, inspector, existing_tables, hop, hidx, existing_indexes,
                   asked, swallowed, hret, hlog, htemp, hsec, hempty, table_lock, touched, hcalls, ix_table, ix_store, ix_issued, ix_pc, ix_i, besidesHandler>>

\* INSERT IGNORE INTO <table> SELECT * FROM <temp> and its commit
\* (db_handler.py:259-264).  It raises if either table is not there, or as
\* any statement can; nothing after it runs then and insert_data returns
\* False (283-285).
InsertIgnoreSelect(t) ==
    /\ hpc[t] = "insert_ignore"
    /\ \/ /\ hstore.exists
          /\ htemp[hsec[t]] # 0
          /\ hstore' = InsertIgnore(hstore, htemp[hsec[t]])
          /\ hlog' = Append(hlog, [caller |-> t, mode |-> "ignore"])
          /\ hpc' = [hpc EXCEPT ![t] = "drop_temp"]
          /\ hret' = hret
          /\ herr' = herr
       \/ /\ hret' = [hret EXCEPT ![t] = Caught(hop[t])]
          /\ hpc' = [hpc EXCEPT ![t] = "done"]
          /\ Raised(t, "insert_ignore")
          /\ UNCHANGED <<hstore, hlog>>
    /\ UNCHANGED <<htable, inspector, existing_tables, hop, hidx, existing_indexes,
                   asked, swallowed, htemp, hsec, hempty, table_lock, touched, hcalls, ix_table, ix_store, ix_issued, ix_pc, ix_i, besidesHandler>>

\* DROP TABLE <temp> and its commit (db_handler.py:267-269), then
\* return True (281).  It raises if the table is not there, or as any
\* statement can, and insert_data returns False (283-285).
DropTemp(t) ==
    /\ hpc[t] = "drop_temp"
    /\ \/ /\ htemp[hsec[t]] # 0
          /\ htemp' = [htemp EXCEPT ![hsec[t]] = 0]
          /\ hret' = [hret EXCEPT ![t] = "True"]
          /\ herr' = herr
       \/ /\ hret' = [hret EXCEPT ![t] = Caught(hop[t])]
          /\ Raised(t, "drop")
          /\ UNCHANGED htemp
    /\ hpc' = [hpc EXCEPT ![t] = "done"]
    /\ UNCHANGED <<htable, hstore, inspector, existing_tables, hop, hidx,
                   existing_indexes, asked, swallowed, hlog, hsec, hempty, table_lock, touched, hcalls, ix_table, ix_store, ix_issued, ix_pc, ix_i, besidesHandler>>

\* the process dies in the middle of a call: the calls under way never
\* return, the store keeps what was committed
Crash ==
    /\ \E t \in Callers : hpc[t] # "done"
    /\ hpc' = [t \in Callers |-> "done"]
    /\ hret' = [t \in Callers |-> IF hpc[t] = "done" THEN hret[t] ELSE "crashed"]
    /\ UNCHANGED <<htable, hstore, inspector, existing_tables, hop, hidx,
                   existing_indexes, asked, swallowed, hlog, htemp, hsec, hempty, herr, table_lock, touched, hcalls, ix_table, ix_store, ix_issued, ix_pc, ix_i, besidesHandler>>

NextHandler ==
    \/ \E t \in Callers : EmptyCheck(t)
    \/ \E t \in Callers : KnownCheck(t)
    \/ \E t \in Callers : CacheCheck(t)
    \/ \E t \in Callers : HasTable(t)
    \/ \E t \in Callers : CacheAdd(t)
    \/ \E t \in Callers : ToSqlCreate(t)
    \/ \E t \in Callers : FirstBatchWrite(t)
    \/ \E t \in Callers : FirstBatchMark(t)
    \/ \E t \in Callers : IndexLoop(t)
    \/ \E t \in Callers : GetIndexes(t)
    \/ \E t \in Callers : CreateIndexStep(t)
    \/ \E t \in Callers : CacheUpdate(t)
    \/ \E t \in Callers : CacheRefresh(t)
    \/ \E t \in Callers : MaxDateCheck(t)
    \/ \E t \in Callers : MaxDateHasTable(t)
    \/ \E t \in Callers : MaxDateAdd(t)
    \/ \E t \in Callers : MaxDateQuery(t)
    \/ \E t \in Callers : EmptyTableCheck(t)
    \/ \E t \in Callers : Truncate(t)
    \/ \E t \in Callers : Insert(t)
    \/ \E t \in Callers : AlterAddUnique(t)
    \/ \E t \in Callers : InsertIgnoreSelect(t)
    \/ \E t \in Callers : DropTemp(t)
    \/ Crash

SpecHandler == InitHandler /\ [][NextHandler]_vars

(***************************************************************************)
(* insert_data called again and again                                      *)
(*                                                                         *)
(* One thread calls insert_data several times, one call after the other,   *)
(* as daily.py does per trade date (daily.py:114-135): caller t stands     *)
(* for the calls made with frame t.  The steps of a call are those of      *)
(* SpecHandler; no call overlaps another.                                  *)
(***************************************************************************)
\* calls made in one sequence
MaxCalls == 3

InitDedup ==
    /\ htable \in {"daily", "stock_basic"}
    /\ hstore \in {AbsentTable, OldTable(htable, FALSE), OldTable(htable, TRUE)}
    /\ inspector \in BOOLEAN
    /\ existing_tables = IF inspector THEN TableNames(hstore, htable) ELSE {}
    /\ hop = [t \in Callers |-> "insert_data"]
    /\ hpc = [t \in Callers |-> IF t = 1 THEN FirstPc(hop[t]) ELSE "done"]
    /\ hidx = [t \in Callers |-> 1]
    /\ existing_indexes = [t \in Callers |-> {}]
    /\ asked = [t \in Callers |-> "no"]
    /\ swallowed = [t \in Callers |-> FALSE]
    /\ hret = [t \in Callers |-> "none"]
    /\ hlog = <<>>
    /\ htemp = [s \in Seconds |-> 0]
    /\ hsec = [t \in Callers |-> 0]
    /\ hempty = [t \in Callers |-> FALSE]
    /\ herr = [t \in Callers |-> {}]
    /\ table_lock = 0
    /\ touched = [t \in Callers |-> "no"]
    /\ hcalls = [t \in Callers |-> IF t = 1 THEN 1 ELSE 0]
    /\ IndexIdle
    /\ SwapIdle
    /\ FetchIdle
    /\ RunIdle
    /\ PoolIdle
    /\ ManifestIdle

\* the next call of the sequence, made with frame t once the call before
\* it has returned (daily.py:128, 205)
CallAgain(t) ==
    /\ \A u \in Callers : hpc[u] = "done"
    /\ hcalls[1] + hcalls[2] < MaxCalls
    /\ hcalls' = [hcalls EXCEPT ![t] = @ + 1]
    /\ hpc' = [hpc EXCEPT ![t] = FirstPc(hop[t])]
    /\ hret' = [hret EXCEPT ![t] = "none"]
    /\ hidx' = [hidx EXCEPT ![t] = 1]
    /\ existing_indexes' = [existing_indexes EXCEPT ![t] = {}]
    /\ asked' = [asked EXCEPT ![t] = "no"]
    /\ swallowed' = [swallowed EXCEPT ![t] = FALSE]
    /\ hsec' = [hsec EXCEPT ![t] = 0]
    /\ herr' = [herr EXCEPT ![t] = {}]
    /\ touched' = [touched EXCEPT ![t] = "no"]
    /\ UNCHANGED <<htable, hstore, inspector, existing_tables, hop, hlog, htemp,
                   hempty, table_lock, ix_table, ix_store, ix_issued, ix_pc, ix_i, besidesHandler>>

NextDedup ==
    \/ \E t \in Callers : EmptyCheck(t)
    \/ \E t \in Callers : KnownCheck(t)
    \/ \E t \in Callers : CacheCheck(t)
    \/ \E t \in Callers : HasTable(t)
    \/ \E t \in Callers : CacheAdd(t)
    \/ \E t \in Callers : ToSqlCreate(t)
    \/ \E t \in Callers : IndexLoop(t)
    \/ \E t \in Callers : GetIndexes(t)
    \/ \E t \in Callers : CreateIndexStep(t)
    \/ \E t \in Callers : CacheUpdate(t)
    \/ \E t \in Callers : CacheRefresh(t)
    \/ \E t \in Callers : Insert(t)
    \/ \E t \in Callers : AlterAddUnique(t)
    \/ \E t \in Callers : InsertIgnoreSelect(t)
    \/ \E t \in Callers : DropTemp(t)
    \/ \E t \in Callers : CallAgain(t)

SpecDedup == InitDedup /\ [][NextDedup]_vars

(***************************************************************************)
(* _create_indexes before and after a swap                                 *)
(*                                                                         *)
(* A table has just been created from a frame, under its own name or       *)
(* under its shadow name.  _create_indexes runs on it, a swap script may   *)
(* rename the shadow table to the logical name, and _create_indexes runs   *)
(* on it once more.  An index keeps its name when its table is renamed.    *)
(***************************************************************************)
\* the tables index_definitions names (db_handler.py:140-163)
IndexedTables == {"stock_basic", "daily", "daily_qfq", "stock_hot_rank"}

\* the shadow table of a table: its name followed by "_new"
ShadowName(x) ==
    CASE x = "stock_basic" -> "stock_basic_new"
      [] x = "daily" -> "daily_new"
      [] x = "daily_qfq" -> "daily_qfq_new"
      [] x = "stock_hot_rank" -> "stock_hot_rank_new"

\* the columns to_sql makes TEXT, the frame holding strings there; the
\* store takes an index on them only with a prefix length
TextColumns == {"ts_code", "trade_date", "symbol", "industry", "area", "stock_code"}

\* the columns between the parentheses of an index type, none if it has
\* no parenthesis (db_handler.py:190, 196-199)
ColumnsPart(index_type) ==
    CASE index_type = "INDEX (ts_code, trade_date)" -> <<"ts_code", "trade_date">>
      [] index_type = "INDEX (stock_code, record_date)" -> <<"stock_code", "record_date">>
      [] OTHER -> <<>>

\* index_name_full (db_handler.py:186)
index_name_full(table_name, index_name) == <<"idx", table_name, index_name>>

\* index_sql (db_handler.py:189-206): the index name, the table and the
\* columns with their prefix lengths, 0 for none
index_sql(table_name, index_def) ==
    LET index_name == index_def[1]
        index_type == index_def[2]
        part == ColumnsPart(index_type)
        cols ==
          IF part # <<>>
            THEN IF /\ definition_table(table_name) \in {"daily", "daily_qfq"}
                    /\ \E i \in 1..Len(part) : part[i] = "ts_code"
                   THEN << <<"ts_code", 20>>, <<"trade_date", 20>> >>
                   ELSE [i \in 1..Len(part) |-> <<part[i], 0>>]
            ELSE IF table_name = "stock_basic" /\ index_name \in {"symbol", "industry", "area"}
                   THEN << <<index_name, 50>> >>
                   ELSE IF /\ definition_table(table_name) \in {"daily", "daily_qfq"}
                           /\ index_name \in {"ts_code", "trade_date"}
                          THEN << <<index_name, 20>> >>
                          ELSE << <<index_name, 0>> >>
    IN [name |-> index_name_full(table_name, index_name), on |-> table_name, cols |-> cols]

\* whether the store takes a CREATE INDEX: the table has that name, no
\* index of it has the name, and every TEXT column comes with a length
Accepts(table, have, stmt) ==
    /\ stmt.on = table
    /\ \A x \in have : x.name # stmt.name
    /\ \A i \in 1..Len(stmt.cols) :
         stmt.cols[i][1] \in TextColumns => stmt.cols[i][2] > 0

InitIndex ==
    /\ \E x \in IndexedTables : ix_table \in {x, ShadowName(x)}
    /\ ix_store = {}
    /\ ix_issued = <<>>
    /\ ix_pc = "first"
    /\ ix_i = 1
    /\ CallersIdle
    /\ SwapIdle
    /\ FetchIdle
    /\ RunIdle
    /\ PoolIdle
    /\ ManifestIdle

\* one turn of the loop of _create_indexes (db_handler.py:171-219): a
\* primary key is passed over, an index whose name the table has is
\* passed over, any other is sent to the store; what the store raises is
\* logged and the loop goes on
IndexTurn ==
    /\ ix_pc \in {"first", "second"}
    /\ ix_i <= Len(IndexDefs(ix_table))
    /\ LET index_def == IndexDefs(ix_table)[ix_i]
           stmt == index_sql(ix_table, index_def)
       IN IF index_def[2] = "PRIMARY KEY" \/ \E x \in ix_store : x.name = stmt.name
            THEN UNCHANGED <<ix_store, ix_issued>>
            ELSE /\ ix_issued' = Append(ix_issued, stmt)
                 /\ \/ /\ Accepts(ix_table, ix_store, stmt)
                       /\ ix_store' = ix_store \cup {[name |-> stmt.name, cols |-> stmt.cols]}
                    \/ UNCHANGED ix_store
    /\ ix_i' = ix_i + 1
    /\ UNCHANGED <<ix_table, ix_pc, htable, hstore, inspector, existing_tables, hop, hpc,
                   hidx, existing_indexes, asked, swallowed, hret, hlog, htemp, hsec,
                   hempty, herr, table_lock, touched, hcalls, besidesHandler>>

\* _create_indexes returns after the last definition
IndexReturn ==
    /\ ix_pc \in {"first", "second"}
    /\ ix_i > Len(IndexDefs(ix_table))
    /\ ix_pc' = IF ix_pc = "first" THEN "created" ELSE "done"
    /\ UNCHANGED <<ix_table, ix_store, ix_issued, ix_i, htable, hstore, inspector,
                   existing_tables, hop, hpc, hidx, existing_indexes, asked, swallowed,
                   hret, hlog, htemp, hsec, hempty, herr, table_lock, touched, hcalls,
                   besidesHandler>>

\* the swap script renames the shadow table to the logical name
\* (apply_table.py:67-70); its indexes go with it under their names
Promote ==
    /\ ix_pc = "created"
    /\ StripNew(ix_table) # ix_table
    /\ ix_table' = StripNew(ix_table)
    /\ ix_pc' = "promoted"
    /\ UNCHANGED <<ix_store, ix_issued, ix_i, htable, hstore, inspector,
                   existing_tables, hop, hpc, hidx, existing_indexes, asked, swallowed,
                   hret, hlog, htemp, hsec, hempty, herr, table_lock, touched, hcalls,
                   besidesHandler>>

\* _create_indexes is called for the table once more (db_handler.py:138)
IndexAgain ==
    /\ ix_pc \in {"created", "promoted"}
    /\ ix_pc' = "second"
    /\ ix_i' = 1
    /\ UNCHANGED <<ix_table, ix_store, ix_issued, htable, hstore, inspector,
                   existing_tables, hop, hpc, hidx, existing_indexes, asked, swallowed,
                   hret, hlog, htemp, hsec, hempty, herr, table_lock, touched, hcalls,
                   besidesHandler>>

NextIndex ==
    \/ IndexTurn
    \/ IndexReturn
    \/ Promote
    \/ IndexAgain

SpecIndex == InitIndex /\ [][NextIndex]_vars

(***************************************************************************)
(* The failure manifest as text                                            *)
(*                                                                         *)
(* A string is a sequence of characters; "TAB", "NL" and "SP" stand for    *)
(* the tab, the line feed and the blank.  write_failed_concepts writes     *)
(* the failure list of a run to the file, read_concept_names_from_file     *)
(* reads the names back for a run from that file.                          *)
(***************************************************************************)
MaxFailed == 2

\* concept names
ConceptNames == {<<"a">>, <<"b">>, <<"a", "SP", "b">>}

\* error_msg: the fixed texts of process_concept_task and the text of an
\* exception, which may run over several lines
Reasons ==
    {<<"x">>,
     <<"x", "SP", "x">>,
     <<"x", "TAB", "x">>,
     <<"x", "NL", "b">>,
     <<"x", "NL", "#", "b">>,
     <<"x", "NL", "NL", "a", "TAB", "x">>}

FailedEntries == [name : ConceptNames, reason : Reasons]

FailedLists == UNION {[1..n -> FailedEntries] : n \in 1..MaxFailed}

Whitespace == {"SP", "TAB", "NL"}

\* file.write(f"{name}\t{reason}\n") for every entry
\* (sync_ths_concepts.py:210-211)
RECURSIVE write_failed_concepts(_)
write_failed_concepts(L) ==
    IF L = <<>>
      THEN <<>>
      ELSE Head(L).name \o <<"TAB">> \o Head(L).reason \o <<"NL">>
             \o write_failed_concepts(Tail(L))

\* "for line in file": the text cut after every line feed
RECURSIVE FileLines(_, _)
FileLines(text, cur) ==
    IF text = <<>>
      THEN IF cur = <<>> THEN <<>> ELSE <<cur>>
      ELSE IF Head(text) = "NL"
             THEN <<Append(cur, "NL")>> \o FileLines(Tail(text), <<>>)
             ELSE FileLines(Tail(text), Append(cur, Head(text)))

RECURSIVE lstrip(_)
lstrip(str) ==
    IF str # <<>> /\ Head(str) \in Whitespace THEN lstrip(Tail(str)) ELSE str

RECURSIVE rstrip(_)
rstrip(str) ==
    IF str # <<>> /\ str[Len(str)] \in Whitespace
      THEN rstrip(SubSeq(str, 1, Len(str) - 1))
      ELSE str

\* str.strip()
strip(str) == rstrip(lstrip(str))

\* line.split("\t", 1)[0]
RECURSIVE BeforeTab(_)
BeforeTab(str) ==
    IF str = <<>> \/ Head(str) = "TAB"
      THEN <<>>
      ELSE <<Head(str)>> \o BeforeTab(Tail(str))

InSeq(x, sq) == \E i \in 1..Len(sq) : sq[i] = x

\* the loop of read_concept_names_from_file over the lines
\* (sync_ths_concepts.py:191-199)
RECURSIVE ReadLines(_, _)
ReadLines(lines, acc) ==
    IF lines = <<>>
      THEN acc
      ELSE LET ln == strip(Head(lines))
               name == strip(BeforeTab(ln))
           IN IF ln = <<>> \/ Head(ln) = "#"
                THEN ReadLines(Tail(lines), acc)
                ELSE IF name = <<>> \/ InSeq(name, acc)
                       THEN ReadLines(Tail(lines), acc)
                       ELSE ReadLines(Tail(lines), Append(acc, name))

read_concept_names_from_file(text) == ReadLines(FileLines(text, <<>>), <<>>)

InitManifest ==
    /\ failed_list \in FailedLists
    /\ mfile = "none"
    /\ mnames = "none"
    /\ mstep = "list"
    /\ SwapIdle
    /\ FetchIdle
    /\ RunIdle
    /\ PoolIdle
    /\ HandlerIdle

\* the end of a run with failures (sync_ths_concepts.py:339-340)
WriteFailed ==
    /\ mstep = "list"
    /\ mfile' = write_failed_concepts(failed_list)
    /\ mstep' = "written"
    /\ UNCHANGED <<failed_list, mnames, besidesManifest>>

\* the start of a run from the file (sync_ths_concepts.py:230-231)
ReadNames ==
    /\ mstep = "written"
    /\ mnames' = read_concept_names_from_file(mfile)
    /\ mstep' = "read"
    /\ UNCHANGED <<failed_list, mfile, besidesManifest>>

NextManifest ==
    \/ WriteFailed
    \/ ReadNames

SpecManifest == InitManifest /\ [][NextManifest]_vars

(***************************************************************************)
(* Claims about the swap                                                   *)
(***************************************************************************)
PairIdx == 1..Len(pairs)

InSwap == swpc \notin {"idle"}

\* C1 (as claimed): whenever the new table does not exist when a swap is
\* invoked, the old table stays as it was at invocation (unchanged if it
\* existed, absent if not): no DROP of the old table is issued.
C1_OldUntouchedWhenNewMissing ==
    InSwap =>
      \A i \in PairIdx :
        ~has_table(pre, pairs[i].new) => store[pairs[i].old] = pre[pairs[i].old]

\* C2 (as claimed): a swap that returns success from a state in which both
\* tables exist leaves old_table holding exactly new_table's rows, and
\* new_table absent.
C2_SwapSafetyAnyNames ==
    (swpc = "done" /\ ret = "True") =>
      \A i \in PairIdx :
        (has_table(pre, pairs[i].new) /\ has_table(pre, pairs[i].old)) =>
          /\ store[pairs[i].old] = pre[pairs[i].new]
          /\ ~has_table(store, pairs[i].new)

\* C2 (amended): the same, for new_table and old_table two distinct names.
C2_SwapSafety ==
    (swpc = "done" /\ ret = "True") =>
      \A i \in PairIdx :
        (/\ pairs[i].new # pairs[i].old
         /\ has_table(pre, pairs[i].new)
         /\ has_table(pre, pairs[i].old)) =>
          /\ store[pairs[i].old] = pre[pairs[i].new]
          /\ ~has_table(store, pairs[i].new)

\* C2 witness: a swap of two distinct existing tables with different rows
\* has returned success.
C2_Witness ==
    /\ swpc = "done"
    /\ ret = "True"
    /\ pairs[1].new # pairs[1].old
    /\ has_table(pre, pairs[1].new)
    /\ has_table(pre, pairs[1].old)
    /\ pre[pairs[1].new].rows # pre[pairs[1].old].rows
    /\ pre[pairs[1].new].rows # {}
    /\ store[pairs[1].old] = pre[pairs[1].new]

\* C3 (as claimed): a swap invoked while its new table (a table distinct
\* from the old one) does not exist returns failure, never success.
C3_MissingNewReturnsFailure ==
    swpc = "done" =>
      \A i \in PairIdx :
        (pairs[i].new # pairs[i].old /\ ~has_table(pre, pairs[i].new)) => ret = "False"

\* C4 (as claimed): if the process dies after the DROP of old_table was
\* committed and before the RENAME, the store holds no old_table and the
\* new_table as it was at invocation; and a re-run from that state, if the
\* store raises nothing, returns success with old_table holding those rows.
C4_CrashBetweenStepsResumable ==
    /\ (swpc = "dead" /\ diedAt = "rename" /\ has_table(pre, CurOld)) =>
         /\ ~has_table(store, CurOld)
         /\ has_table(store, CurNew)
         /\ store[CurNew] = pre[CurNew]
    /\ (swpc = "done" /\ diedAt = "rename" /\ ~fault) =>
         /\ ret = "True"
         /\ has_table(store, CurOld)
         /\ store[CurOld] = pre[CurNew]

\* C5 (as claimed): after a swap that returned success, neither name of a
\* swapped pair is in DatabaseHandler._existing_tables.
C5_CacheInvalidatedAfterSuccess ==
    (swpc = "done" /\ ret = "True") =>
      \A i \in PairIdx : pairs[i].new \notin cache /\ pairs[i].old \notin cache

(***************************************************************************)
(* Claims about the retrying fetchers                                      *)
(***************************************************************************)
AllRaise == \A i \in 1..Len(calls) : calls[i] = "raise"

\* C6: a fetcher of one unit whose data source raises on every call calls it
\* exactly the configured number of times and then returns a failure value
\* (an empty frame or None); it never raises to its caller and never calls
\* the data source more often than configured.
C6_RetryBound ==
    fkind \in UnitFetchers =>
      /\ Len(calls) <= retries
      /\ fres # "raised"
      /\ (fpc = "done" /\ AllRaise) =>
           /\ Len(calls) = retries
           /\ fres \in {"empty", "none"}

\* C6 witness: a unit fetcher configured with three attempts has returned
\* after three raising calls.
C6_Witness ==
    /\ fkind \in UnitFetchers
    /\ fpc = "done"
    /\ retries = 3
    /\ calls = <<"raise", "raise", "raise">>
    /\ fres \in {"empty", "none"}

\* C7: when the data source raises on the first two calls and returns rows
\* on the third, the fetcher returns those rows having slept exactly twice,
\* base*1 then base*2; the delay after the k-th failed attempt is base*k.
C7_RetrySuccessPath ==
    /\ (fpc = "done" /\ calls = <<"raise", "raise", "rows">>) =>
         /\ fres = "rows"
         /\ sleeps = <<base * 1, base * 2>>
    /\ \A i \in 1..Len(sleeps) : sleeps[i] = base * i

\* C7 witness: a fetch has returned rows on its third call after two raises
\* and two sleeps.
C7_Witness ==
    /\ fpc = "done"
    /\ calls = <<"raise", "raise", "rows">>
    /\ fres = "rows"
    /\ Len(sleeps) = 2

\* C8 (as claimed): in every fetcher, a call that returns without rows (an
\* empty frame or None) is the last call for the unit: the fetcher has
\* returned, with an empty result.
C8_NoDataNeverRetried ==
    \A i \in 1..Len(calls) :
      calls[i] \in NoData =>
        /\ i = Len(calls)
        /\ fpc = "done"
        /\ fres \in NoData

\* C8 (amended): in every fetcher of one work unit, a call that returns
\* without rows is the last call for the unit and the fetcher returns an
\* empty result; the list fetchers take such a response for a failed attempt.
C8_UnitFetchersNeverRetryNoData ==
    fkind \in UnitFetchers =>
      \A i \in 1..Len(calls) :
        calls[i] \in NoData =>
          /\ i = Len(calls)
          /\ fpc = "done"
          /\ fres \in NoData

\* C8 witness: a unit fetcher with attempts to spare has returned an empty
\* result right after the call that came back without rows.
C8_Witness ==
    /\ fkind \in UnitFetchers
    /\ fpc = "done"
    /\ Len(calls) >= 1
    /\ Len(calls) < retries
    /\ calls[Len(calls)] \in NoData
    /\ fres \in NoData

(***************************************************************************)
(* Claims about the orchestrators                                          *)
(***************************************************************************)
Submitted == {u \in Units : u <= nunits}

\* the outcome a processed unit is recorded under
RecordedAs(u) ==
    IF \E i \in 1..Len(failed) : failed[i].unit = u
      THEN (CHOOSE e \in {failed[i] : i \in 1..Len(failed)} : e.unit = u).reason
      ELSE IF wr[u] = "ok" THEN "success" ELSE "unrecorded"

\* C9: a unit whose every fetch attempt raised is returned to the
\* orchestrator as something other than what a unit with an empty response
\* is returned as, and the two are recorded under different reasons.
C9_ErrorsDistinctFromEmpties ==
    \A u, v \in Submitted :
      (/\ ust[u] = "processed"
       /\ ust[v] = "processed"
       /\ src[u].truth = "error"
       /\ src[v].truth = "empty") =>
        /\ fut[u] # fut[v]
        /\ RecordedAs(u) # RecordedAs(v)

Succeeded == {u \in Submitted : src[u].truth = "rows" /\ wr[u] = "ok"}

EmptyUnits == {u \in Submitted : src[u].truth \in NoData}

ErrorUnits == Submitted \ (Succeeded \cup EmptyUnits)

RECURSIVE SumRows(_)
SumRows(S) == IF S = {} THEN 0 ELSE LET u == CHOOSE x \in S : TRUE IN src[u].n + SumRows(S \ {u})

C11_ShadowEqualsSummary ==
    (rpc = "done" /\ FullRun(orch, resume)) =>
      /\ shadow.rows[0] = 0
      /\ \A u \in Units : shadow.rows[u] = (IF u \in Succeeded THEN 1 ELSE 0)

\* every submitted unit was fetched, and written if its fetch yielded rows
AllFetchedAndWritten ==
    \A u \in Submitted :
      /\ src[u] # NoSource
      /\ TaskFuture(orch, src[u].truth).val = "rows" => wr[u] # "none"

C14_AtMostOnceWritePerUnit ==
    \A u \in Units : shadow.rows[u] <= 1

\* C14 witness: the second unit was completed and written ahead of the
\* first, whose frame waits for the loop, and is in the table once.
C14_Witness ==
    /\ orch = "sync_daily_qfq"
    /\ rpc = "drain"
    /\ wr[2] = "ok"
    /\ shadow.rows[2] = 1
    /\ ust[1] = "finished"
    /\ fut[1].val = "rows"
    /\ wr[1] = "none"

\* C15 (as claimed): after a run of an orchestrator that keeps a failure
\* manifest, ended with no failed unit, the manifest file does not exist,
\* whether or not an earlier run had left one.
C15_NoManifestAfterCleanRun ==
    (rpc = "done" /\ KeepsManifest(orch) /\ FailedCount = 0) => ~manifest.exists

\* the units whose batch was written
Written == {u \in Submitted : wr[u] = "ok"}

\* the unit ids the manifest lists
ManifestUnits == {manifest.units[i] : i \in 1..Len(manifest.units)}

C17_SuccessIffWritten ==
    rpc \in {"done", "failed"} => (rret = "True" <=> Written # {})

(***************************************************************************)
(* Claims about DatabaseHandler                                            *)
(***************************************************************************)
\* ensure_table_exists has returned normally to caller t, or into insert_data
EnsureReturned(t) ==
    \/ hop[t] = "ensure_table_exists" /\ hret[t] = "returned"
    \/ hop[t] = "insert_data" /\ hpc[t] = "insert"

\* a caller treats the table as absent only after has_table said so
AskedBeforeAbsent == \A t \in Callers : hpc[t] = "to_sql" => asked[t] = "absent"

TwoReplaces ==
    /\ Len(hlog) >= 2
    /\ hlog[Len(hlog)].mode = "replace"
    /\ hlog[Len(hlog) - 1].mode = "replace"

\* C19: after two consecutive first-batch writes (if_exists='replace') to the
\* same table name the table holds exactly the rows of the second batch, not
\* those of the first with them.
C19_ReplaceLeavesSecondBatch ==
    TwoReplaces =>
      /\ hstore.exists
      /\ hstore.rows = [NoRows EXCEPT ![hlog[Len(hlog)].caller] = 1]

\* C19 witness: two orchestrators made their first-batch write one after the
\* other; the table holds the batch of the second.
C19_Witness ==
    /\ hop = <<"first_batch", "first_batch">>
    /\ hlog = <<[caller |-> 1, mode |-> "replace"], [caller |-> 2, mode |-> "replace"]>>
    /\ hstore.rows[2] = 1
    /\ hstore.rows[1] = 0
    /\ hret[2] = "returned"

\* the index names of the table's definitions that are not primary keys
DefinedIndexes ==
    {IndexDefs(htable)[i][1] : i \in {j \in 1..Len(IndexDefs(htable)) :
                                         IndexDefs(htable)[j][2] # "PRIMARY KEY"}}

\* C20: _create_indexes called twice for the same table, one call after the
\* other or the two at once, never raises to its caller, and every index
\* name is on the table at most once.
C20_IndexesAtMostOnce ==
    /\ \A t \in Callers : hop[t] = "_create_indexes" => hret[t] # "raised"
    /\ \A n \in IndexNames : hstore.idx[n] <= 1

\* C20 witness: two callers of _create_indexes both found the last index of
\* daily missing and both sent its CREATE INDEX; both returned and the
\* table has each index once.
C20_Witness ==
    /\ htable = "daily"
    /\ hop = <<"_create_indexes", "_create_indexes">>
    /\ hret = <<"returned", "returned">>
    /\ "ts_code_trade_date" \notin existing_indexes[1]
    /\ "ts_code_trade_date" \notin existing_indexes[2]
    /\ \A n \in DefinedIndexes : hstore.idx[n] = 1

\* C21 (as claimed): once every call has returned or the process has died,
\* the store holds no table temp_<table>_<second>.
C21_NoStagingTableLeft ==
    (\A t \in Callers : hpc[t] = "done") => \A s \in Seconds : htemp[s] = 0

\* the statements whose errors insert_data and what it calls log and pass
\* over: ALTER TABLE ... ADD UNIQUE KEY (db_handler.py:247-256), the body
\* of the index loop (218-219), the refresh of the cache (123-124)
Ignored == {"alter", "get_indexes", "create_index", "refresh"}

InsertReturned(t) == hop[t] = "insert_data" /\ hpc[t] = "done" /\ hret[t] # "crashed"

\* C22 (as claimed): whenever a statement of an insert_data call raised,
\* the call returns False.
C22_AnyStorageErrorReturnsFalse ==
    \A t \in Callers : InsertReturned(t) /\ herr[t] # {} => hret[t] = "False"

\* C22 (amended): insert_data never raises; it returns False whenever a
\* statement outside the ignoring handlers raised; with an empty frame it
\* returns False having asked the store nothing, written nothing and left
\* the cache as it was.
C22_WriteFailuresAreValues ==
    /\ [](\A t \in Callers :
            /\ hop[t] = "insert_data" => hret[t] # "raised"
            /\ InsertReturned(t) =>
                 /\ hret[t] \in {"True", "False"}
                 /\ herr[t] \ Ignored # {} => hret[t] = "False"
                 /\ hempty[t] =>
                      /\ hret[t] = "False"
                      /\ herr[t] = {}
                      /\ asked[t] = "no"
                      /\ hsec[t] = 0
                      /\ \A i \in 1..Len(hlog) : hlog[i].caller # t)
    /\ [][\A t \in Callers :
            hempty[t] /\ hpc'[t] # hpc[t]
              => UNCHANGED <<hstore, htemp, existing_tables, inspector>>]_vars

\* C22 witness: one call was handed an empty frame and returned False; the
\* other's INSERT IGNORE raised after its ALTER had been refused, and it
\* returned False too.
C22_Witness ==
    /\ hop = <<"insert_data", "insert_data">>
    /\ hempty = <<TRUE, FALSE>>
    /\ hpc = <<"done", "done">>
    /\ hret = <<"False", "False">>
    /\ herr[2] = {"alter", "insert_ignore"}

\* C26 (as claimed): no caller reads or writes _existing_tables without
\* holding _table_lock.
C26_CacheOnlyUnderLock == \A t \in Callers : touched[t] # "bare"

FirstBatchOps == {"first_batch", "first_batch_minute"}

\* C27 (as claimed): when the first-batch write of an orchestrator has
\* returned, the table is in the store and its name is in _existing_tables.
C27_FirstBatchMarksTable ==
    \A t \in Callers :
      hop[t] \in FirstBatchOps /\ hret[t] = "returned"
        => hstore.exists /\ htable \in existing_tables

\* C23 (as claimed): after the interrupt no unit that was waiting is
\* started, and the run ends with its summary.
C23_InterruptStopsNewUnits ==
    /\ [][mpc = "shutdown" => \A u \in Units : pst[u] = "queued" => pst'[u] = "queued"]_vars
    /\ [](mpc # "interrupted")

\* C24: a run that got no connection to the store has fetched no unit,
\* written nothing and counted nothing, and returns failure.
C24_ConnectFailureIsFatal ==
    rpc = "failed" =>
      /\ rret = "False"
      /\ \A u \in Units :
           /\ ust[u] = "none"
           /\ src[u] = NoSource
           /\ fut[u] = NoFuture
           /\ wr[u] = "none"
      /\ shadow \in {NoShadow, LegacyShadow}
      /\ total_records = 0
      /\ success_count = 0
      /\ failed = <<>>
      /\ manifest \in {NoManifest, StaleManifest}

\* C24 witness: sync_daily_qfq with three stocks to fetch got no
\* connection; the table of the last run is as it was.
C24_Witness ==
    /\ rpc = "failed"
    /\ orch = "sync_daily_qfq"
    /\ nunits = 3
    /\ shadow = LegacyShadow

\* C25 (as claimed): when a swap script has returned, every name in
\* _existing_tables is the name of a table in the store.
C25_CacheSound ==
    swpc = "done" => cache \subseteq get_table_names(store)

WrittenOk == {u \in Units : wr[u] = "ok"}

\* C28: in a run of an orchestrator whose loop writes the frames, the
\* rows of every unit written are in the shadow table from then on; a
\* write that comes after a successful one takes no rows away; first_batch
\* is set only while no unit has been written, and in a run that starts
\* with a creating write it stays set until a write succeeds.
C28_OneCreatingWrite ==
    /\ [](~WritesInWorker(orch) /\ rpc \in {"drain", "done"} =>
            /\ \A u \in WrittenOk : shadow.exists /\ shadow.rows[u] >= 1
            /\ first_batch => WrittenOk = {}
            /\ ~AppendsToExisting(orch, resume) /\ WrittenOk = {} => first_batch)
    /\ [][~WritesInWorker(orch) /\ WrittenOk # {} =>
            \A v \in Units0 : shadow'.rows[v] >= shadow.rows[v]]_vars

\* C28 witness: sync_daily_qfq over a table an earlier run left; the
\* write of the first unit raised, the two after it were written, one
\* creating the table anew and one appending.
C28_Witness ==
    /\ orch = "sync_daily_qfq"
    /\ rpc = "done"
    /\ wr = <<"raised", "ok", "ok">>
    /\ shadow.rows = [EmptyBag EXCEPT ![2] = 1, ![3] = 1]
    /\ ~first_batch

\* C29: in a run of sync_concepts from a concept file, a shadow table
\* that holds rows from before the run stays and loses no row; in a run
\* without one, no unit's rows are in the table together with rows from
\* before the run.
C29_ResumeKeepsShadow ==
    /\ [][orch = "sync_concepts" /\ resume /\ shadow.rows[0] >= 1 =>
            /\ shadow'.exists
            /\ \A v \in Units0 : shadow'.rows[v] >= shadow.rows[v]]_vars
    /\ [](orch = "sync_concepts" /\ ~resume /\ WrittenOk # {} => shadow.rows[0] = 0)

\* C29 witness: a run from a concept file has written its first unit to
\* the table of the run before, whose rows are still there.
C29_Witness ==
    /\ orch = "sync_concepts"
    /\ resume
    /\ rpc = "done"
    /\ wr[1] = "ok"
    /\ shadow.rows[0] = 1
    /\ shadow.rows[1] = 1

\* the names of a failure list in order, each once
RECURSIVE UnitIds(_, _)
UnitIds(L, acc) ==
    IF L = <<>>
      THEN acc
      ELSE UnitIds(Tail(L), IF InSeq(Head(L).name, acc) THEN acc
                            ELSE Append(acc, Head(L).name))

\* C30 (as claimed): the names read back from the file written for a
\* failure list are the names of the list, in order, each once.
C30_ManifestRoundTrip ==
    mstep = "read" => mnames = UnitIds(failed_list, <<>>)

\* caller t of insert_data has written its staging table and not yet
\* dropped it
Staging(t) == hpc[t] \in {"add_unique", "insert_ignore", "drop_temp"}

\* C31 (as claimed): two insert_data calls on a de-duplicated table that
\* overlap never use the same staging table name, and a call that
\* returned True has its own frame in the target table.
C31_StagingNamesDistinct ==
    /\ \A t, u \in Callers :
         t # u /\ Staging(t) /\ Staging(u) => hsec[t] # hsec[u]
    /\ \A t \in Callers :
         hop[t] = "insert_data" /\ Deduplicated(htable) /\ hret[t] = "True"
           => hstore.rows[t] >= 1

C33_CreatingInsertWritesOnce ==
    /\ ~Deduplicated(htable)
    /\ hcalls[1] = 1 /\ hcalls[2] = 0
    /\ hret[1] = "True"
    /\ \E i \in 1..Len(hlog) : hlog[i] = [caller |-> 1, mode |-> "replace"]
    => hstore.rows[1] = 1

\* the writes of the log that created the table
Creations == SelectSeq(hlog, LAMBDA e : e.mode = "replace")

\* C34 (as claimed): when two threads call insert_data for a table that
\* is neither cached nor in the store, one of them creates it and the
\* frame of every call that returned True is in the table.
C34_ConcurrentCreationKeepsRows ==
    (\A t \in Callers : hop[t] = "insert_data") =>
      /\ Len(Creations) <= 1
      /\ \A t \in Callers :
           Creations # <<>> /\ hret[t] = "True" => hstore.rows[t] >= 1

\* the definition of the logical table that a statement was built from
DefOf(stmt) ==
    CHOOSE d \in {IndexDefs(stmt.on)[i] : i \in 1..Len(IndexDefs(stmt.on))} :
      d[1] = stmt.name[3]

\* C35 (as claimed): every CREATE INDEX statement sent for a shadow table
\* X_new names the columns, with the prefix lengths, of the statement
\* _create_indexes builds for X from the same definition.
C35_ShadowGetsSameIndexes ==
    \A j \in 1..Len(ix_issued) :
      ix_issued[j].cols = index_sql(StripNew(ix_issued[j].on), DefOf(ix_issued[j])).cols

\* C36 (as claimed): whatever the order of _create_indexes calls and the
\* promotion of the shadow table, the table has each index of its
\* definition at most once.
C36_IndexesOncePerTable ==
    \A a, b \in ix_store : a.name[3] = b.name[3] => a = b

\* the calls of the data source that sent the fetcher into its except
\* block
FailedCalls == SelectSeq(calls, LAMBDA o : AttemptFailed(fkind, o))

\* C38 (as claimed): get_qfq_data, fetch_concept_daily and
\* fetch_minute_data sleep once per failed attempt that another attempt
\* follows, and not after the last failed attempt: on return the sleeps
\* are the failed attempts, less one if every attempt failed.
C38_SleepsOnlyBetweenAttempts ==
    fkind \in {"get_qfq_data", "fetch_concept_daily", "fetch_minute_data"} /\ fpc = "done" =>
      Len(sleeps) = IF Len(FailedCalls) = Len(calls)
                      THEN Len(calls) - 1
                      ELSE Len(FailedCalls)

\* C39 (as claimed): once replace_concepts has returned or raised for a
\* stock and its task is over, the table holds for that stock the list it
\* held before or the new list, never no rows.
C39_ReplaceAllOrNothing ==
    \A u \in Units :
      pipe = "sync_stock_concept" /\ pst[u] \in {"returned", "done"} =>
        crows[u] = "list"

\* the units the run has put on its failure list
Listed == {failed[i].unit : i \in 1..Len(failed)}

\* C37: a run over any list of units, with any number of workers and any
\* outcomes of the data source and the store, comes to its end; at the end
\* of a run that submitted its units the processed count is the number of
\* units submitted, and every unit is counted as succeeded or as failed,
\* never as both: where a failure list is kept, a unit is on it exactly if
\* its rows were not written.
C37_RunTerminates ==
    /\ <>(rpc \in {"done", "failed"})
    /\ [](rpc = "done" =>
            /\ finished = nunits
            /\ success_count + FailedCount = nunits
            /\ \A u \in Units : u <= nunits =>
                 /\ ust[u] \in {"processed", "skipped"}
                 /\ KeepsFailedList(orch) => (u \in Listed <=> wr[u] # "ok"))

\* C37 witness: a run of two workers over two units has ended with the
\* second unit written and the first, whose fetch raised, on the failure
\* list.
C37_Witness ==
    /\ rpc = "done"
    /\ nunits = 2
    /\ max_workers = 2
    /\ wr[2] = "ok"
    /\ src[1].truth = "error"
    /\ Listed = {1}

====
